---- MODULE Spec2Model ----
(***************************************************************************)
(* Model of the bucket compactor (pkg/compactor/bucket_compactor.go).      *)
(*                                                                         *)
(* SpecJob    one worker of BucketCompactor.Compact running one job        *)
(*            through BucketCompactor.runCompactionJob, one action per     *)
(*            statement that touches the disk, the bucket or a metric.     *)
(* SpecVerify verifyCompactedBlocksTimeRanges applied to bounded inputs.   *)
(***************************************************************************)
EXTENDS Integers, Sequences, FiniteSets, TLC

\* ------------------------------------------------------------------ bounds

\* Largest number of blocks in the job handed to runCompactionJob.
MaxBlocks == 2

\* Fan-out of the download and upload stages, and of the open stage.
blockSyncConcurrency == 2
blockOpenConcurrency == 2

\* Values of Job.SplittingShards tried when Job.UseSplitting is set.
ShardChoices == {2}

\* MinTime / MaxTime of source blocks, and of the blocks compaction writes.
SrcTimes == {1, 2}
OutTimes == {0, 1, 2}

\* ------------------------------------------------------------- data model

\* ulid.ULID{}: the empty block id.
ZeroULID == 0

\* int64(time.Millisecond): nanoseconds per millisecond.
NanosPerMilli == 1000000

\* An int64 is kept as its eight bytes, least first, two's complement: the
\* integers of the model checker are narrower than those of the code.
Byte == 2^8

RECURSIVE Bytes(_, _)
Bytes(n, k) == IF k = 0 THEN <<>> ELSE <<n % Byte>> \o Bytes(n \div Byte, k - 1)

\* ^x
Not64(w) == [i \in DOMAIN w |-> Byte - 1 - w[i]]

\* x + d for a small d >= 0, the carry out of the top byte being lost as in
\* Go.
RECURSIVE AddFrom(_, _, _)
AddFrom(w, i, carry) ==
    IF i > Len(w) THEN <<>>
    ELSE <<(w[i] + carry) % Byte>> \o AddFrom(w, i + 1, (w[i] + carry) \div Byte)

\* -x
Neg64(w) == AddFrom(Not64(w), 1, 1)

\* int64(n) of an integer the model checker can hold.
Int64(n) == IF n >= 0 THEN Bytes(n, 8) ELSE Neg64(Bytes(-n, 8))

\* x < 0
IsNeg64(w) == w[Len(w)] >= Byte \div 2

RECURSIVE UIntFrom(_, _)
UIntFrom(w, i) == IF i > Len(w) THEN 0 ELSE w[i] + Byte * UIntFrom(w, i + 1)

\* The integer an int64 holds, where the model checker can hold it.
ToInt(w) == IF IsNeg64(w) THEN -UIntFrom(Neg64(w), 1) ELSE UIntFrom(w, 1)

\* x * k for a small k > 0: Go wraps around silently.
RECURSIVE MulFrom(_, _, _, _)
MulFrom(w, k, i, carry) ==
    IF i > Len(w) THEN <<>>
    ELSE <<(w[i] * k + carry) % Byte>>
            \o MulFrom(w, k, i + 1, (w[i] * k + carry) \div Byte)

Mul64(w, k) == MulFrom(w, k, 1, 0)

\* Quotient and remainder of the unsigned value of the bytes 1..i of w,
\* with rem in front, by a small k > 0.
RECURSIVE DivFrom(_, _, _, _)
DivFrom(w, k, i, rem) ==
    IF i = 0 THEN [q |-> <<>>, r |-> rem]
    ELSE LET cur == rem * Byte + w[i]
             rest == DivFrom(w, k, i - 1, cur % k)
         IN  [q |-> Append(rest.q, cur \div k), r |-> rest.r]

\* The greatest q with q * k <= x, for a small k > 0.
FloorDiv64(w, k) ==
    IF IsNeg64(w)
    THEN LET d == DivFrom(Neg64(w), k, Len(w), 0)
         IN  IF d.r = 0 THEN Neg64(d.q) ELSE Not64(d.q)
    ELSE DivFrom(w, k, Len(w), 0).q

RECURSIVE ULess(_, _, _)
ULess(a, b, i) ==
    IF i = 0 THEN FALSE
    ELSE IF a[i] # b[i] THEN a[i] < b[i] ELSE ULess(a, b, i - 1)

\* x < y
Less64(a, b) ==
    IF IsNeg64(a) # IsNeg64(b) THEN IsNeg64(a) ELSE ULess(a, b, Len(a))

\* The int64 written in decimal digits ds.
RECURSIVE DecFrom(_, _, _)
DecFrom(ds, i, acc) ==
    IF i > Len(ds) THEN acc
    ELSE DecFrom(ds, i + 1, AddFrom(Mul64(acc, 10), 1, ds[i]))

Dec(ds) == DecFrom(ds, 1, Int64(0))

\* ULID of the i-th block of the job, and of the block written for shard i.
SrcULID(i) == i
OutULID(i) == 100 + i

Range(s) == {s[i] : i \in 1..Len(s)}

\* block.Meta, reduced to the fields the compactor reads.
SrcMetas(i) ==
    {m \in {[ULID |-> SrcULID(i), MinTime |-> lo, MaxTime |-> hi, NumSamples |-> n] :
                lo \in SrcTimes, hi \in SrcTimes, n \in {0, 1}} :
        m.MinTime <= m.MaxTime}

\* Job.metasByMinTime: the job's blocks ordered by MinTime.
JobMetas ==
    UNION {{s \in [1..n -> UNION {SrcMetas(i) : i \in 1..n}] :
               /\ \A i \in 1..n : s[i] \in SrcMetas(i)
               /\ \A i \in 1..(n - 1) : s[i].MinTime <= s[i + 1].MinTime} :
           n \in 1..MaxBlocks}

Jobs ==
    {[metasByMinTime |-> m, UseSplitting |-> FALSE, SplittingShards |-> 0] :
        m \in JobMetas}
    \cup
    {[metasByMinTime |-> m, UseSplitting |-> TRUE, SplittingShards |-> k] :
        m \in JobMetas, k \in ShardChoices}

\* The sub-sequences of s (order kept): what a Planner may select.
RECURSIVE SubSeqs(_)
SubSeqs(s) ==
    IF s = <<>> THEN {<<>>}
    ELSE LET rest == SubSeqs(Tail(s))
         IN rest \cup {<<Head(s)>> \o r : r \in rest}

\* The block.Meta list CompactWithSplitting may return for `shards` shards:
\* position i is shard i, an empty ULID is a shard without samples.
OutMetas(i) ==
    {[ULID |-> ZeroULID, MinTime |-> 0, MaxTime |-> 0]}
    \cup
    {m \in {[ULID |-> OutULID(i), MinTime |-> lo, MaxTime |-> hi] :
                lo \in OutTimes, hi \in OutTimes} :
        m.MinTime <= m.MaxTime}

CompactResults(shards) ==
    {s \in [1..shards -> UNION {OutMetas(i) : i \in 1..shards}] :
        \A i \in 1..shards : s[i] \in OutMetas(i)}

\* ------------------------------------------------------------ pure helpers

\* hasNonZeroULIDs
hasNonZeroULIDs(ids) == \E i \in 1..Len(ids) : ids[i] # ZeroULID

\* block.Meta.MinTime and MaxTime as int64: the metas of most
\* specifications carry small times as plain integers, those with the
\* field wide carry the int64 itself.
MinTimeOf(m) == IF "wide" \in DOMAIN m THEN m.MinTime ELSE Int64(m.MinTime)

MaxTimeOf(m) == IF "wide" \in DOMAIN m THEN m.MaxTime ELSE Int64(m.MaxTime)

\* The loop of minTime.
RECURSIVE minOf(_, _, _)
minOf(metas, i, acc) ==
    IF i > Len(metas) THEN acc
    ELSE minOf(metas, i + 1,
               IF Less64(MinTimeOf(metas[i]), acc)
               THEN MinTimeOf(metas[i]) ELSE acc)

\* The loop of maxTime.
RECURSIVE maxOf(_, _, _)
maxOf(metas, i, acc) ==
    IF i > Len(metas) THEN acc
    ELSE maxOf(metas, i + 1,
               IF Less64(acc, MaxTimeOf(metas[i]))
               THEN MaxTimeOf(metas[i]) ELSE acc)

\* time.Time{}: January 1, year 1, which no int64 of nanoseconds since 1970
\* reaches.
ZeroTime == [zero |-> TRUE, ns |-> Int64(0)]

\* time.Unix(0, nsec)
Unix0(nsec) == [zero |-> FALSE, ns |-> nsec]

\* minTime: time.Time{} for no metas, else
\* time.Unix(0, minT*int64(time.Millisecond)).
minTime(metas) ==
    IF Len(metas) = 0
    THEN ZeroTime
    ELSE Unix0(Mul64(minOf(metas, 1, MinTimeOf(metas[1])), NanosPerMilli))

\* maxTime
maxTime(metas) ==
    IF Len(metas) = 0
    THEN ZeroTime
    ELSE Unix0(Mul64(maxOf(metas, 1, MaxTimeOf(metas[1])), NanosPerMilli))

\* time.Time.UnixMilli, an int64: the zero Time is 62135596800 seconds
\* before 1970.
UnixMilli(t) ==
    IF t.zero
    THEN Neg64(Dec(<<6, 2, 1, 3, 5, 5, 9, 6, 8, 0, 0, 0, 0, 0>>))
    ELSE FloorDiv64(t.ns, NanosPerMilli)

\* Mutant of verifyLoop: the final check fails only when neither bound of the
\* source range was found.
RECURSIVE verifyLoop_Neither(_, _, _, _, _, _, _)
verifyLoop_Neither(compIDs, i, srcMin, srcMax, dir, minFound, maxFound) ==
    IF i > Len(compIDs)
    THEN IF ~minFound /\ ~maxFound THEN "notContained" ELSE "nil"
    ELSE IF compIDs[i] = ZeroULID
    THEN verifyLoop_Neither(compIDs, i + 1, srcMin, srcMax, dir, minFound, maxFound)
    ELSE LET meta == dir[compIDs[i]]
         IN IF ~meta.ok THEN "readMeta"
            ELSE IF meta.MinTime < srcMin THEN "invalidMinTime"
            ELSE IF meta.MaxTime > srcMax THEN "invalidMaxTime"
            ELSE verifyLoop_Neither(compIDs, i + 1, srcMin, srcMax, dir,
                            minFound \/ meta.MinTime = srcMin,
                            maxFound \/ meta.MaxTime = srcMax)

\* verifyCompactedBlocksTimeRanges; dir[id] is what block.ReadMetaFromDir
\* finds for id in subDir. The result is "nil" or the error returned.
RECURSIVE verifyLoop(_, _, _, _, _, _, _)
verifyLoop(compIDs, i, srcMin, srcMax, dir, minFound, maxFound) ==
    IF i > Len(compIDs)
    THEN IF ~minFound \/ ~maxFound THEN "notContained" ELSE "nil"
    ELSE IF compIDs[i] = ZeroULID
    THEN verifyLoop(compIDs, i + 1, srcMin, srcMax, dir, minFound, maxFound)
    ELSE LET meta == dir[compIDs[i]]
         IN IF ~meta.ok THEN "readMeta"
            ELSE IF meta.MinTime < srcMin THEN "invalidMinTime"
            ELSE IF meta.MaxTime > srcMax THEN "invalidMaxTime"
            ELSE verifyLoop(compIDs, i + 1, srcMin, srcMax, dir,
                            minFound \/ meta.MinTime = srcMin,
                            maxFound \/ meta.MaxTime = srcMax)

verifyCompactedBlocksTimeRanges(compIDs, srcMin, srcMax, dir) ==
    verifyLoop(compIDs, 1, srcMin, srcMax, dir, FALSE, FALSE)

\* convertCompactionResultToForEachJobs: the non-empty ULIDs, order kept.
RECURSIVE convertCompactionResultToForEachJobs(_)
convertCompactionResultToForEachJobs(compactedBlocks) ==
    IF compactedBlocks = <<>> THEN <<>>
    ELSE IF Head(compactedBlocks) = ZeroULID
         THEN convertCompactionResultToForEachJobs(Tail(compactedBlocks))
         ELSE <<Head(compactedBlocks)>>
              \o convertCompactionResultToForEachJobs(Tail(compactedBlocks))

\* ------------------------------------------------------------------ state

VARIABLES
    job,            \* the *Job handed to the worker
    pc,             \* the worker's position in Compact / runCompactionJob
    toCompact,      \* planner.Plan's result
    subDirExists,   \* compactDir/<job key> exists
    disk,           \* ULIDs with a block directory under subDir
    nextIdx,        \* concurrency.ForEachJob: indexes handed out so far
    inflight,       \* concurrency.ForEachJob: indexes whose jobFunc is running
    stageErr,       \* concurrency.ForEachJob: some jobFunc returned an error
    src,            \* indexes of toCompact whose BlockReader is open
    out,            \* the []block.Meta CompactWithSplitting returned
    compIDs,        \* the ULIDs of out
    uploaded,       \* bucket: ULIDs of the blocks uploaded by this job
    marked,         \* bucket: ULIDs carrying a deletion marker
    deleteCalls,    \* ULIDs deleteBlock was called for
    markIdx,        \* position of the loops over toCompact that mark blocks
    verifyErr,      \* what verifyCompactedBlocksTimeRanges returned
    ret,            \* (shouldRerun, compIDs, rerr) of runCompactionJob
    blocksMarkedForDeletion,
    compactionBlocksVerificationFailed,
    groupCompactionRunsStarted,
    groupCompactionRunsCompleted,
    groupCompactionRunsFailed,
    groupCompactions,
    vArgs,          \* SpecVerify: arguments of verifyCompactedBlocksTimeRanges
    vRes,           \* SpecVerify: its result
    concurrency,    \* BucketCompactor.concurrency
    cpc,            \* Compact: the position of the supervising goroutine
    pass,           \* Compact: iterations of the outer loop started so far
    jobs,           \* Compact: the local jobs of the current pass
    jobIdx,         \* Compact: position of the dispatch loop in jobs
    errChan,        \* Compact: the group keys of the errors queued in errChan
    jobErrs,        \* Compact: the group keys of the errors in jobErrs
    finishedAllJobs,
    maxCompactionTimeReached,
    timer,          \* Compact: maxCompactionTimeChan
    wst,            \* Compact: the position of each worker goroutine
    wjob,           \* Compact: the group key of the job each worker holds
    wret,           \* Compact: what runCompactionJob returned to each worker
    workCtxCancelled,
    compactErr,     \* what Compact returned
    waitIn,         \* filterJobsByWaitPeriod: its argument and check results
    waitSkipped,    \* group keys filterJobsByWaitPeriod removed in this pass
    passErrs,       \* group keys whose run failed in this pass
    passRerun,      \* some run of this pass returned shouldRerun = true
    blocks,         \* Syncer.blocks, as the set of its ULIDs
    mtx,            \* Syncer.mtx: 0 when free, else the caller holding it
    spc,            \* SpecSyncer: the position of each caller of the Syncer
    duplicateIDs,   \* GarbageCollect: the ids each caller has yet to mark
    garbageCollections,
    garbageCollectionFailures,
    gcCall,         \* GarbageCollect: what the running call found at its start
    sret,           \* what the last GarbageCollect call to return returned
    calls,          \* SpecSyncer: method calls made so far
    ctxDone,        \* the caller's ctx has been cancelled
    halfMarked,     \* bucket: ULIDs whose marker write was cut short
    compactDirExists, \* the directory compactDir exists
    dirs,           \* the job keys k with a directory compactDir/<k>
    fsMode,         \* the file system is sound or refuses removals or creations
    fMetas,         \* Filter: the map metas it was handed, as the set of its ULIDs
    fMetas0,        \* Filter: metas as it was when Filter was called
    removeNoCompactBlocks,
    fNoCompactMarkedMap,  \* NoCompactionMarkFilter.noCompactMarkedMap
    noCompactMarkedMap,   \* Filter: its local of that name
    names,          \* Filter: the object names under markers/, as Iter lists them
    nameIdx,        \* Filter: the position of Iter in names
    filterErr,      \* Filter: what it returned
    filterCalls,    \* Filter calls made so far
    bkt,            \* the bucket, where its blocks are followed from call to call
    call,           \* the Compact call under way, where calls are counted
    passBkt,        \* the bucket as the pass under way found it
    ownIn,          \* filterOwnJobs: its argument and the answers of ownJob
    runCount,       \* job -> the runCompactionJob calls on it that have returned
    lastRun,        \* the job last run and what runCompactionJob returned
    tPlan,          \* minTime, maxTime: the plan they are called on
    tRes,           \* srcMin and srcMax as passed to the verification
    queueSize,      \* IngestionQueue: capacity of the queue channel
    queueWorkers,   \* IngestionQueue: number of worker goroutines
    queue,          \* the inputs in the buffer of the queue channel
    stop,           \* the stop channel: "open" or "closed"
    stopPc,         \* Stop: "none", "waiting" in wg.Wait, "returned"
    qw,             \* each queue worker: "start" at the head of its loop,
                    \* "select" parked in its select, "got" holding an
                    \* input, "woken" by close(stop), "exited"
    recvq,          \* the workers parked on the queue channel, first first
    qin,            \* the input each queue worker holds, 0 if none
    discardedTotal, \* the counter of discarded inputs
    puts,           \* Put calls made so far; call n puts input n
    lastPut,        \* what the last Put call did and returned
    enqueued,       \* the inputs Put has sent on the queue channel
    ingested,       \* the inputs Ingest has been called with
    lastIngest      \* the input of the last safePut call and what it returned

stageVars == <<nextIdx, inflight, stageErr>>
bktVars == <<uploaded, marked, deleteCalls, blocksMarkedForDeletion>>
workerMetrics ==
    <<groupCompactionRunsStarted, groupCompactionRunsCompleted,
      groupCompactionRunsFailed, groupCompactions>>
verVars == <<vArgs, vRes>>
jobVars ==
    <<job, pc, toCompact, subDirExists, disk, stageVars, src, out, compIDs,
      bktVars, markIdx, verifyErr, ret, compactionBlocksVerificationFailed,
      workerMetrics>>
jobLocal ==
    <<job, pc, toCompact, subDirExists, disk, stageVars, src, out, compIDs,
      bktVars, markIdx, verifyErr, ret, compactionBlocksVerificationFailed>>
chanVars == <<errChan, timer>>
workerVars == <<wst, wjob, wret>>
passVars == <<waitIn, waitSkipped, passErrs, passRerun>>
supVars ==
    <<concurrency, cpc, pass, jobs, jobIdx, chanVars, jobErrs,
      finishedAllJobs, maxCompactionTimeReached, workerVars,
      workCtxCancelled, compactErr, passVars>>
jobQuiet ==
    <<job, pc, toCompact, subDirExists, disk, stageVars, src, out, compIDs,
      uploaded, deleteCalls, markIdx, verifyErr, ret,
      compactionBlocksVerificationFailed, workerMetrics>>
gcMetrics == <<garbageCollections, garbageCollectionFailures>>
callVars == <<mtx, spc, duplicateIDs, gcMetrics, gcCall, sret, calls>>
syVars == <<blocks, callVars>>
fsVars == <<compactDirExists, dirs, fsMode>>
ncVars ==
    <<fMetas, fMetas0, removeNoCompactBlocks, fNoCompactMarkedMap,
      noCompactMarkedMap, names, nameIdx, filterErr, filterCalls>>
twVars == <<bkt, call, passBkt>>
owVars == <<ownIn, runCount, lastRun>>
tmVars == <<tPlan, tRes>>
quVars == <<queueSize, queueWorkers, queue, stop, stopPc, qw, recvq, qin,
            discardedTotal, puts, lastPut, enqueued, ingested, lastIngest>>
moreVars == <<owVars, tmVars, quVars>>
auxVars == <<ncVars, twVars, moreVars>>
restQuiet == <<supVars, syVars, ctxDone, fsVars, auxVars>>
restVars == <<restQuiet, halfMarked>>
vars == <<jobVars, verVars, restVars>>

NoRet == [shouldRerun |-> FALSE, compIDs |-> <<>>, rerr |-> "unset"]

NoArgs == [compIDs |-> <<>>, srcMin |-> 0, srcMax |-> 0, dir |-> <<>>]

\* Nothing of a job has run: no local, no file, no bucket write, no count.
JobFresh ==
    /\ toCompact = <<>>
    /\ subDirExists = FALSE
    /\ disk = {}
    /\ nextIdx = 0
    /\ inflight = {}
    /\ stageErr = FALSE
    /\ src = {}
    /\ out = <<>>
    /\ compIDs = <<>>
    /\ uploaded = {}
    /\ marked = {}
    /\ deleteCalls = {}
    /\ markIdx = 1
    /\ verifyErr = "unset"
    /\ ret = NoRet
    /\ blocksMarkedForDeletion = 0
    /\ compactionBlocksVerificationFailed = 0
    /\ groupCompactionRunsStarted = 0
    /\ groupCompactionRunsCompleted = 0
    /\ groupCompactionRunsFailed = 0
    /\ groupCompactions = 0

\* A worker of Compact that has just received a job from jobChan.
JobIdle == pc = "received" /\ JobFresh

VerifyIdle == vArgs = NoArgs /\ vRes = "unset"

NoWaitIn == [jobs |-> <<>>, res |-> <<>>]

\* Compact has not been called: no goroutine, channel or local exists yet.
CompactIdle ==
    /\ cpc = "loop"
    /\ pass = 0
    /\ jobs = <<>>
    /\ jobIdx = 1
    /\ errChan = <<>>
    /\ jobErrs = {}
    /\ finishedAllJobs = TRUE
    /\ maxCompactionTimeReached = FALSE
    /\ wst = <<>>
    /\ wjob = <<>>
    /\ wret = <<>>
    /\ workCtxCancelled = FALSE
    /\ compactErr = "unset"
    /\ waitIn = NoWaitIn
    /\ waitSkipped = {}
    /\ passErrs = {}
    /\ passRerun = FALSE

\* NewMetaSyncer: an empty map and a free mutex; nobody is calling the Syncer.
SyncerIdle ==
    /\ blocks = {}
    /\ mtx = 0
    /\ spc = <<>>
    /\ duplicateIDs = <<>>
    /\ garbageCollections = 0
    /\ garbageCollectionFailures = 0
    /\ gcCall = <<>>
    /\ sret = "unset"
    /\ calls = 0

\* compactDir does not exist and the file system is sound.
FsIdle == compactDirExists = FALSE /\ dirs = {} /\ fsMode = "sound"

\* No NoCompactionMarkFilter has been made.
NoCompactIdle ==
    /\ fMetas = {}
    /\ fMetas0 = {}
    /\ removeNoCompactBlocks = FALSE
    /\ fNoCompactMarkedMap = {}
    /\ noCompactMarkedMap = {}
    /\ names = <<>>
    /\ nameIdx = 1
    /\ filterErr = "unset"
    /\ filterCalls = 0

\* The blocks of the bucket are not followed, and Compact is called once.
TwiceIdle == bkt = <<>> /\ call = 1 /\ passBkt = <<>>

\* filterOwnJobs has not been called.
NoOwnIn == [pass |-> 0, jobs |-> <<>>, res |-> <<>>, started |-> 0]

\* No runCompactionJob call has returned.
NoRun == [job |-> 0, shouldRerun |-> FALSE, compIDs |-> <<>>, rerr |-> "unset"]

OwnIdle ==
    /\ ownIn = NoOwnIn
    /\ runCount = <<>>
    /\ lastRun = NoRun

\* No time range has been computed.
NoRange == [set |-> FALSE, srcMin |-> Int64(0), srcMax |-> Int64(0)]

TimeIdle == tPlan = <<>> /\ tRes = NoRange

\* No Put call has been made.
NoPut == [input |-> 0, did |-> "none", err |-> "unset"]

\* safePut has not been called.
NoIngest == [input |-> 0, err |-> "unset"]

\* There is no ingestion queue.
QueueIdle ==
    /\ queueSize = 0
    /\ queueWorkers = 0
    /\ queue = <<>>
    /\ stop = "open"
    /\ stopPc = "none"
    /\ qw = <<>>
    /\ recvq = <<>>
    /\ qin = <<>>
    /\ discardedTotal = 0
    /\ puts = 0
    /\ lastPut = NoPut
    /\ enqueued = {}
    /\ ingested = {}
    /\ lastIngest = NoIngest

MoreIdle == OwnIdle /\ TimeIdle /\ QueueIdle

AuxIdle == NoCompactIdle /\ TwiceIdle /\ MoreIdle

CoreIdle ==
    /\ concurrency = 1
    /\ timer = "off"
    /\ CompactIdle
    /\ FsIdle
    /\ SyncerIdle
    /\ ctxDone = FALSE
    /\ halfMarked = {}

RestIdle == CoreIdle /\ AuxIdle

InitJob == job \in Jobs /\ JobIdle /\ VerifyIdle /\ RestIdle

\* ------------------------------------------------- concurrency.ForEachJob

\* A worker of ForEachJob takes the next index: at most conc jobFuncs run at
\* a time, and no index is handed out once a jobFunc has failed.
StageTake(n, conc) ==
    /\ ~stageErr
    /\ nextIdx < n
    /\ Cardinality(inflight) < conc
    /\ nextIdx' = nextIdx + 1
    /\ inflight' = inflight \cup {nextIdx + 1}
    /\ UNCHANGED stageErr

\* Mutant of StageOver: ForEachJob returns without waiting for the jobFuncs
\* still running.
StageOver_NoWait(n) == stageErr \/ nextIdx = n

\* ForEachJob returns: every started jobFunc is over, and either all indexes
\* were handed out or one jobFunc failed.
StageOver(n) == inflight = {} /\ (stageErr \/ nextIdx = n)

StageReset == nextIdx' = 0 /\ inflight' = {} /\ stageErr' = FALSE

\* --------------------------------------------------------- runCompactionJob

\* Mutant of Return: a return with an error leaves the function without
\* running the deferred cleanup.
Return_SkipCleanupOnError(shouldRerun, ids, rerr) ==
    /\ pc' = IF rerr = "nil" THEN "defer" ELSE "returned"
    /\ ret' = [shouldRerun |-> shouldRerun, compIDs |-> ids, rerr |-> rerr]

\* A return statement of runCompactionJob; the deferred calls run next.
Return(shouldRerun, ids, rerr) ==
    /\ pc' = "defer"
    /\ ret' = [shouldRerun |-> shouldRerun, compIDs |-> ids, rerr |-> rerr]

\* The worker counts the run and calls runCompactionJob.
WorkerStartJob ==
    /\ pc = "received"
    /\ groupCompactionRunsStarted' = groupCompactionRunsStarted + 1
    /\ pc' = "mkdir"
    /\ UNCHANGED <<job, toCompact, subDirExists, disk, nextIdx, inflight,
                   stageErr, src, out, compIDs, uploaded, marked,
                   deleteCalls, blocksMarkedForDeletion, markIdx, verifyErr,
                   ret, compactionBlocksVerificationFailed,
                   groupCompactionRunsCompleted, groupCompactionRunsFailed,
                   groupCompactions, verVars,
                   restVars>>

\* os.MkdirAll(subDir)
MkdirAll ==
    /\ pc = "mkdir"
    /\ \E ok \in BOOLEAN :
          IF ok
          THEN /\ subDirExists' = TRUE
               /\ pc' = "plan"
               /\ UNCHANGED ret
          ELSE /\ Return(FALSE, <<>>, "create compaction job dir")
               /\ UNCHANGED subDirExists
    /\ UNCHANGED <<job, toCompact, disk, nextIdx, inflight, stageErr, src,
                   out, compIDs, uploaded, marked, deleteCalls,
                   blocksMarkedForDeletion, markIdx, verifyErr,
                   compactionBlocksVerificationFailed,
                   groupCompactionRunsStarted, groupCompactionRunsCompleted,
                   groupCompactionRunsFailed, groupCompactions, verVars,
                   restVars>>

\* c.planner.Plan(ctx, job.metasByMinTime) fails.
PlanFails ==
    /\ pc = "plan"
    /\ Return(FALSE, <<>>, "plan compaction")
    /\ UNCHANGED <<job, toCompact, subDirExists, disk, nextIdx, inflight,
                   stageErr, src, out, compIDs, uploaded, marked,
                   deleteCalls, blocksMarkedForDeletion, markIdx, verifyErr,
                   compactionBlocksVerificationFailed,
                   groupCompactionRunsStarted, groupCompactionRunsCompleted,
                   groupCompactionRunsFailed, groupCompactions, verVars,
                   restVars>>

\* Mutant of Plan: the empty plan asks for another pass.
Plan_EmptyRerun ==
    /\ pc = "plan"
    /\ \E p \in SubSeqs(job.metasByMinTime) :
          /\ toCompact' = p
          /\ IF Len(p) = 0
             THEN Return(TRUE, <<>>, "nil")
             ELSE pc' = "download" /\ UNCHANGED ret
    /\ UNCHANGED <<job, subDirExists, disk, nextIdx, inflight, stageErr, src,
                   out, compIDs, uploaded, marked, deleteCalls,
                   blocksMarkedForDeletion, markIdx, verifyErr,
                   compactionBlocksVerificationFailed,
                   groupCompactionRunsStarted, groupCompactionRunsCompleted,
                   groupCompactionRunsFailed, groupCompactions, verVars,
                   restVars>>

\* c.planner.Plan(ctx, job.metasByMinTime) selects the blocks to compact; an
\* empty selection ends the job.
Plan ==
    /\ pc = "plan"
    /\ \E p \in SubSeqs(job.metasByMinTime) :
          /\ toCompact' = p
          /\ IF Len(p) = 0
             THEN Return(FALSE, <<>>, "nil")
             ELSE pc' = "download" /\ UNCHANGED ret
    /\ UNCHANGED <<job, subDirExists, disk, nextIdx, inflight, stageErr, src,
                   out, compIDs, uploaded, marked, deleteCalls,
                   blocksMarkedForDeletion, markIdx, verifyErr,
                   compactionBlocksVerificationFailed,
                   groupCompactionRunsStarted, groupCompactionRunsCompleted,
                   groupCompactionRunsFailed, groupCompactions, verVars,
                   restVars>>

\* Download stage: a ForEachJob worker starts block.Download of a block.
DownloadTake ==
    /\ pc = "download"
    /\ StageTake(Len(toCompact), blockSyncConcurrency)
    /\ UNCHANGED <<job, pc, toCompact, subDirExists, disk, src, out, compIDs,
                   uploaded, marked, deleteCalls, blocksMarkedForDeletion,
                   markIdx, verifyErr, ret,
                   compactionBlocksVerificationFailed,
                   groupCompactionRunsStarted, groupCompactionRunsCompleted,
                   groupCompactionRunsFailed, groupCompactions, verVars,
                   restVars>>

\* block.Download of one block ends: the block is in subDir, or the download
\* failed and left its directory partly written or not at all.
DownloadFinish ==
    /\ pc = "download"
    /\ \E idx \in inflight, ok \in BOOLEAN, written \in BOOLEAN :
          /\ ok => written
          /\ inflight' = inflight \ {idx}
          /\ stageErr' = (stageErr \/ ~ok)
          /\ disk' = IF written THEN disk \cup {toCompact[idx].ULID} ELSE disk
    /\ UNCHANGED <<job, pc, toCompact, subDirExists, nextIdx, src, out,
                   compIDs, uploaded, marked, deleteCalls,
                   blocksMarkedForDeletion, markIdx, verifyErr, ret,
                   compactionBlocksVerificationFailed,
                   groupCompactionRunsStarted, groupCompactionRunsCompleted,
                   groupCompactionRunsFailed, groupCompactions, verVars,
                   restVars>>

\* ForEachJob of the download stage returns.
DownloadDone ==
    /\ pc = "download"
    /\ StageOver(Len(toCompact))
    /\ IF stageErr
       THEN Return(FALSE, <<>>, "download block")
       ELSE pc' = "localBucket" /\ UNCHANGED ret
    /\ StageReset
    /\ UNCHANGED <<job, toCompact, subDirExists, disk, src, out, compIDs,
                   uploaded, marked, deleteCalls, blocksMarkedForDeletion,
                   markIdx, verifyErr, compactionBlocksVerificationFailed,
                   groupCompactionRunsStarted, groupCompactionRunsCompleted,
                   groupCompactionRunsFailed, groupCompactions, verVars,
                   restVars>>

\* client.NewBucket over subDir.
NewLocalBucket ==
    /\ pc = "localBucket"
    /\ \E ok \in BOOLEAN :
          IF ok
          THEN pc' = "open" /\ UNCHANGED ret
          ELSE Return(FALSE, <<>>, "create local bucket")
    /\ UNCHANGED <<job, toCompact, subDirExists, disk, nextIdx, inflight,
                   stageErr, src, out, compIDs, uploaded, marked,
                   deleteCalls, blocksMarkedForDeletion, markIdx, verifyErr,
                   compactionBlocksVerificationFailed,
                   groupCompactionRunsStarted, groupCompactionRunsCompleted,
                   groupCompactionRunsFailed, groupCompactions, verVars,
                   restVars>>

\* Open stage: a ForEachJob worker starts opening a block.
OpenTake ==
    /\ pc = "open"
    /\ StageTake(Len(toCompact), blockOpenConcurrency)
    /\ UNCHANGED <<job, pc, toCompact, subDirExists, disk, src, out, compIDs,
                   uploaded, marked, deleteCalls, blocksMarkedForDeletion,
                   markIdx, verifyErr, ret,
                   compactionBlocksVerificationFailed,
                   groupCompactionRunsStarted, groupCompactionRunsCompleted,
                   groupCompactionRunsFailed, groupCompactions, verVars,
                   restVars>>

\* b.Open(ctx) of one block ends; src[idx] is set on success only.
OpenFinish ==
    /\ pc = "open"
    /\ \E idx \in inflight, ok \in BOOLEAN :
          /\ inflight' = inflight \ {idx}
          /\ stageErr' = (stageErr \/ ~ok)
          /\ src' = IF ok THEN src \cup {idx} ELSE src
    /\ UNCHANGED <<job, pc, toCompact, subDirExists, disk, nextIdx, out,
                   compIDs, uploaded, marked, deleteCalls,
                   blocksMarkedForDeletion, markIdx, verifyErr, ret,
                   compactionBlocksVerificationFailed,
                   groupCompactionRunsStarted, groupCompactionRunsCompleted,
                   groupCompactionRunsFailed, groupCompactions, verVars,
                   restVars>>

\* ForEachJob of the open stage returns.
OpenDone ==
    /\ pc = "open"
    /\ StageOver(Len(toCompact))
    /\ IF stageErr
       THEN Return(FALSE, <<>>, "open block")
       ELSE pc' = "compact" /\ UNCHANGED ret
    /\ StageReset
    /\ UNCHANGED <<job, toCompact, subDirExists, disk, src, out, compIDs,
                   uploaded, marked, deleteCalls, blocksMarkedForDeletion,
                   markIdx, verifyErr, compactionBlocksVerificationFailed,
                   groupCompactionRunsStarted, groupCompactionRunsCompleted,
                   groupCompactionRunsFailed, groupCompactions, verVars,
                   restVars>>

\* phlaredb.CompactWithSplitting fails.
CompactFails ==
    /\ pc = "compact"
    /\ Return(FALSE, <<>>, "compact blocks")
    /\ UNCHANGED <<job, toCompact, subDirExists, disk, nextIdx, inflight,
                   stageErr, src, out, compIDs, uploaded, marked,
                   deleteCalls, blocksMarkedForDeletion, markIdx, verifyErr,
                   compactionBlocksVerificationFailed,
                   groupCompactionRunsStarted, groupCompactionRunsCompleted,
                   groupCompactionRunsFailed, groupCompactions, verVars,
                   restVars>>

\* The number of shards passed to CompactWithSplitting.
Shards == IF job.UseSplitting THEN job.SplittingShards ELSE 1

\* phlaredb.CompactWithSplitting writes its blocks under subDir and returns
\* their metas; compIDs collects the ULIDs and hasNonZeroULIDs picks the path.
Compact ==
    /\ pc = "compact"
    /\ \E o \in CompactResults(Shards) :
          LET ids == [i \in 1..Len(o) |-> o[i].ULID]
          IN /\ out' = o
             /\ compIDs' = ids
             /\ disk' = disk \cup (Range(ids) \ {ZeroULID})
             /\ pc' = IF hasNonZeroULIDs(ids) THEN "verify" ELSE "markEmpty"
    /\ UNCHANGED <<job, toCompact, subDirExists, nextIdx, inflight, stageErr,
                   src, uploaded, marked, deleteCalls,
                   blocksMarkedForDeletion, markIdx, verifyErr, ret,
                   compactionBlocksVerificationFailed,
                   groupCompactionRunsStarted, groupCompactionRunsCompleted,
                   groupCompactionRunsFailed, groupCompactions, verVars,
                   restVars>>

\* A context is the caller's ctx or one made from context.Background(); only
\* the former is done once ctx is cancelled.
ctxErr(c) == c = "ctx" /\ ctxDone

\* Mutant of delCtx: the marker is written under the caller's ctx.
delCtx_CallerCtx == "ctx"

\* The context handed to block.MarkForDeletion:
\* context.WithTimeout(context.Background(), 5*time.Minute).
delCtx == "background"

\* block.MarkForDeletion under context c: the marker is written or the write
\* fails with nothing written; once c is done the write fails, or is cut
\* short with part of the marker written.
MarkOutcomes(c) ==
    IF ctxErr(c) THEN {"error", "interrupted"} ELSE {"ok", "error"}

\* The outcomes of one deleteBlock call.
DeleteOutcomes ==
    {"remove old block dir"}
    \cup {IF o = "error" THEN "mark block for deletion" ELSE o :
             o \in MarkOutcomes(delCtx)}

\* Mutant of deleteBlock: the marker is written before the directory is
\* removed, so a failed removal leaves the block marked.
deleteBlock_MarkFirst(id, outcome) ==
    /\ deleteCalls' = deleteCalls \cup {id}
    /\ disk' = IF outcome = "remove old block dir" THEN disk ELSE disk \ {id}
    /\ marked' = IF outcome # "mark block for deletion" THEN marked \cup {id} ELSE marked
    /\ blocksMarkedForDeletion' =
          IF outcome # "mark block for deletion" /\ id \notin marked
          THEN blocksMarkedForDeletion + 1
          ELSE blocksMarkedForDeletion
    /\ halfMarked' = halfMarked

\* deleteBlock: os.RemoveAll(bdir), then block.MarkForDeletion under a fresh
\* context, which writes the marker and counts it unless one is there.
deleteBlock(id, outcome) ==
    /\ deleteCalls' = deleteCalls \cup {id}
    /\ disk' = IF outcome = "remove old block dir" THEN disk ELSE disk \ {id}
    /\ marked' = IF outcome = "ok" THEN marked \cup {id} ELSE marked
    /\ blocksMarkedForDeletion' =
          IF outcome = "ok" /\ id \notin marked
          THEN blocksMarkedForDeletion + 1
          ELSE blocksMarkedForDeletion
    /\ halfMarked' =
          IF outcome = "interrupted" THEN halfMarked \cup {id} ELSE halfMarked

\* Mutant of MarkEmpty: every planned block is deleted, with samples or not.
MarkEmpty_All ==
    /\ pc = "markEmpty"
    /\ markIdx <= Len(toCompact)
    /\ LET meta == toCompact[markIdx]
       IN IF meta.NumSamples >= 0
          THEN \E outcome \in DeleteOutcomes : deleteBlock(meta.ULID, outcome)
          ELSE UNCHANGED <<disk, marked, deleteCalls, blocksMarkedForDeletion,
                           halfMarked>>
    /\ markIdx' = markIdx + 1
    /\ UNCHANGED <<job, pc, toCompact, subDirExists, nextIdx, inflight,
                   stageErr, src, out, compIDs, uploaded, verifyErr, ret,
                   compactionBlocksVerificationFailed,
                   groupCompactionRunsStarted, groupCompactionRunsCompleted,
                   groupCompactionRunsFailed, groupCompactions, verVars,
                   restQuiet>>

\* No output has samples: one turn of the loop that deletes the planned
\* blocks without samples; a failed deleteBlock is logged only.
MarkEmpty ==
    /\ pc = "markEmpty"
    /\ markIdx <= Len(toCompact)
    /\ LET meta == toCompact[markIdx]
       IN IF meta.NumSamples = 0
          THEN \E outcome \in DeleteOutcomes : deleteBlock(meta.ULID, outcome)
          ELSE UNCHANGED <<disk, marked, deleteCalls, blocksMarkedForDeletion,
                           halfMarked>>
    /\ markIdx' = markIdx + 1
    /\ UNCHANGED <<job, pc, toCompact, subDirExists, nextIdx, inflight,
                   stageErr, src, out, compIDs, uploaded, verifyErr, ret,
                   compactionBlocksVerificationFailed,
                   groupCompactionRunsStarted, groupCompactionRunsCompleted,
                   groupCompactionRunsFailed, groupCompactions, verVars,
                   restQuiet>>

\* The loop is over: return true, nil, nil.
MarkEmptyReturn ==
    /\ pc = "markEmpty"
    /\ markIdx > Len(toCompact)
    /\ Return(TRUE, <<>>, "nil")
    /\ UNCHANGED <<job, toCompact, subDirExists, disk, nextIdx, inflight,
                   stageErr, src, out, compIDs, uploaded, marked,
                   deleteCalls, blocksMarkedForDeletion, markIdx, verifyErr,
                   compactionBlocksVerificationFailed,
                   groupCompactionRunsStarted, groupCompactionRunsCompleted,
                   groupCompactionRunsFailed, groupCompactions, verVars,
                   restVars>>

\* What block.ReadMetaFromDir finds under subDir for the blocks of out.
subDirMetas ==
    [id \in {out[i].ULID : i \in 1..Len(out)} \ {ZeroULID} |->
        LET m == CHOOSE x \in Range(out) : x.ULID = id
        IN [ok |-> id \in disk, MinTime |-> m.MinTime, MaxTime |-> m.MaxTime]]

\* Mutant of Verify: a verification error ends the job.
Verify_Abort ==
    /\ pc = "verify"
    /\ LET err == verifyCompactedBlocksTimeRanges(compIDs,
                      ToInt(UnixMilli(minTime(toCompact))),
                      ToInt(UnixMilli(maxTime(toCompact))), subDirMetas)
       IN /\ verifyErr' = err
          /\ compactionBlocksVerificationFailed' =
                IF err # "nil"
                THEN compactionBlocksVerificationFailed + 1
                ELSE compactionBlocksVerificationFailed
          /\ IF err # "nil"
             THEN Return(FALSE, <<>>, "verify")
             ELSE pc' = "upload" /\ UNCHANGED ret
    /\ UNCHANGED <<job, toCompact, subDirExists, disk, nextIdx, inflight,
                   stageErr, src, out, compIDs, uploaded, marked,
                   deleteCalls, blocksMarkedForDeletion, markIdx,
                   groupCompactionRunsStarted, groupCompactionRunsCompleted,
                   groupCompactionRunsFailed, groupCompactions, verVars,
                   restVars>>

\* verifyCompactedBlocksTimeRanges is called; its error is logged and counted.
Verify ==
    /\ pc = "verify"
    /\ LET err == verifyCompactedBlocksTimeRanges(compIDs,
                      ToInt(UnixMilli(minTime(toCompact))),
                      ToInt(UnixMilli(maxTime(toCompact))), subDirMetas)
       IN /\ verifyErr' = err
          /\ compactionBlocksVerificationFailed' =
                IF err # "nil"
                THEN compactionBlocksVerificationFailed + 1
                ELSE compactionBlocksVerificationFailed
    /\ pc' = "upload"
    /\ UNCHANGED <<job, toCompact, subDirExists, disk, nextIdx, inflight,
                   stageErr, src, out, compIDs, uploaded, marked,
                   deleteCalls, blocksMarkedForDeletion, markIdx, ret,
                   groupCompactionRunsStarted, groupCompactionRunsCompleted,
                   groupCompactionRunsFailed, groupCompactions, verVars,
                   restVars>>

blocksToUpload == convertCompactionResultToForEachJobs(compIDs)

\* Upload stage: a ForEachJob worker starts on one non-empty output.
UploadTake ==
    /\ pc = "upload"
    /\ StageTake(Len(blocksToUpload), blockSyncConcurrency)
    /\ UNCHANGED <<job, pc, toCompact, subDirExists, disk, src, out, compIDs,
                   uploaded, marked, deleteCalls, blocksMarkedForDeletion,
                   markIdx, verifyErr, ret,
                   compactionBlocksVerificationFailed,
                   groupCompactionRunsStarted, groupCompactionRunsCompleted,
                   groupCompactionRunsFailed, groupCompactions, verVars,
                   restVars>>

\* ReadMetaFromDir, removal of tombstones, ValidateLocalBlock and block.Upload
\* of one output end: the block is in the bucket, or one of them failed.
UploadFinish ==
    /\ pc = "upload"
    /\ \E idx \in inflight, ok \in BOOLEAN :
          /\ inflight' = inflight \ {idx}
          /\ stageErr' = (stageErr \/ ~ok)
          /\ uploaded' = IF ok THEN uploaded \cup {blocksToUpload[idx]} ELSE uploaded
    /\ UNCHANGED <<job, pc, toCompact, subDirExists, disk, nextIdx, src, out,
                   compIDs, marked, deleteCalls, blocksMarkedForDeletion,
                   markIdx, verifyErr, ret,
                   compactionBlocksVerificationFailed,
                   groupCompactionRunsStarted, groupCompactionRunsCompleted,
                   groupCompactionRunsFailed, groupCompactions, verVars,
                   restVars>>

\* Mutant of UploadDone: the error of the upload stage is dropped.
UploadDone_IgnoreErr ==
    /\ pc = "upload"
    /\ StageOver(Len(blocksToUpload))
    /\ pc' = "mark"
    /\ UNCHANGED ret
    /\ StageReset
    /\ UNCHANGED <<job, toCompact, subDirExists, disk, src, out, compIDs,
                   uploaded, marked, deleteCalls, blocksMarkedForDeletion,
                   markIdx, verifyErr, compactionBlocksVerificationFailed,
                   groupCompactionRunsStarted, groupCompactionRunsCompleted,
                   groupCompactionRunsFailed, groupCompactions, verVars,
                   restVars>>

\* ForEachJob of the upload stage returns.
UploadDone ==
    /\ pc = "upload"
    /\ StageOver(Len(blocksToUpload))
    /\ IF stageErr
       THEN Return(FALSE, <<>>, "upload")
       ELSE pc' = "mark" /\ UNCHANGED ret
    /\ StageReset
    /\ UNCHANGED <<job, toCompact, subDirExists, disk, src, out, compIDs,
                   uploaded, marked, deleteCalls, blocksMarkedForDeletion,
                   markIdx, verifyErr, compactionBlocksVerificationFailed,
                   groupCompactionRunsStarted, groupCompactionRunsCompleted,
                   groupCompactionRunsFailed, groupCompactions, verVars,
                   restVars>>

\* Mutant of MarkSources: a failed deleteBlock is logged only.
MarkSources_LogOnly ==
    /\ pc = "mark"
    /\ markIdx <= Len(toCompact)
    /\ \E outcome \in DeleteOutcomes :
          /\ deleteBlock(toCompact[markIdx].ULID, outcome)
          /\ markIdx' = markIdx + 1
          /\ UNCHANGED <<pc, ret>>
    /\ UNCHANGED <<job, toCompact, subDirExists, nextIdx, inflight, stageErr,
                   src, out, compIDs, uploaded, verifyErr,
                   compactionBlocksVerificationFailed,
                   groupCompactionRunsStarted, groupCompactionRunsCompleted,
                   groupCompactionRunsFailed, groupCompactions, verVars,
                   restQuiet>>

\* One turn of the loop that marks the compacted blocks for deletion; a
\* failed deleteBlock ends the job.
MarkSources ==
    /\ pc = "mark"
    /\ markIdx <= Len(toCompact)
    /\ \E outcome \in DeleteOutcomes :
          /\ deleteBlock(toCompact[markIdx].ULID, outcome)
          /\ IF outcome = "ok"
             THEN markIdx' = markIdx + 1 /\ UNCHANGED <<pc, ret>>
             ELSE /\ Return(FALSE, <<>>, "mark old block for deletion from bucket")
                  /\ UNCHANGED markIdx
    /\ UNCHANGED <<job, toCompact, subDirExists, nextIdx, inflight, stageErr,
                   src, out, compIDs, uploaded, verifyErr,
                   compactionBlocksVerificationFailed,
                   groupCompactionRunsStarted, groupCompactionRunsCompleted,
                   groupCompactionRunsFailed, groupCompactions, verVars,
                   restQuiet>>

\* The loop is over: return true, compIDs, nil.
MarkSourcesReturn ==
    /\ pc = "mark"
    /\ markIdx > Len(toCompact)
    /\ Return(TRUE, compIDs, "nil")
    /\ UNCHANGED <<job, toCompact, subDirExists, disk, nextIdx, inflight,
                   stageErr, src, out, compIDs, uploaded, marked,
                   deleteCalls, blocksMarkedForDeletion, markIdx, verifyErr,
                   compactionBlocksVerificationFailed,
                   groupCompactionRunsStarted, groupCompactionRunsCompleted,
                   groupCompactionRunsFailed, groupCompactions, verVars,
                   restVars>>

\* The deferred calls: the open readers are closed, os.RemoveAll(subDir) is
\* attempted and its failure only logged.
Deferred ==
    /\ pc = "defer"
    /\ src' = {}
    /\ \E removed \in BOOLEAN :
          /\ subDirExists' = (subDirExists /\ ~removed)
          /\ disk' = IF removed THEN {} ELSE disk
    /\ pc' = "returned"
    /\ UNCHANGED <<job, toCompact, nextIdx, inflight, stageErr, out, compIDs,
                   uploaded, marked, deleteCalls, blocksMarkedForDeletion,
                   markIdx, verifyErr, ret,
                   compactionBlocksVerificationFailed,
                   groupCompactionRunsStarted, groupCompactionRunsCompleted,
                   groupCompactionRunsFailed, groupCompactions, verVars,
                   restVars>>

\* The worker counts the outcome of runCompactionJob.
WorkerAfterJob ==
    /\ pc = "returned"
    /\ IF ret.rerr = "nil"
       THEN /\ groupCompactionRunsCompleted' = groupCompactionRunsCompleted + 1
            /\ groupCompactions' =
                  IF hasNonZeroULIDs(ret.compIDs)
                  THEN groupCompactions + 1
                  ELSE groupCompactions
            /\ UNCHANGED groupCompactionRunsFailed
       ELSE /\ groupCompactionRunsFailed' = groupCompactionRunsFailed + 1
            /\ UNCHANGED <<groupCompactionRunsCompleted, groupCompactions>>
    /\ pc' = "done"
    /\ UNCHANGED <<job, toCompact, subDirExists, disk, nextIdx, inflight,
                   stageErr, src, out, compIDs, uploaded, marked,
                   deleteCalls, blocksMarkedForDeletion, markIdx, verifyErr,
                   ret, compactionBlocksVerificationFailed,
                   groupCompactionRunsStarted, verVars,
                   restVars>>

NextJob ==
    \/ WorkerStartJob
    \/ MkdirAll
    \/ PlanFails
    \/ Plan
    \/ DownloadTake
    \/ DownloadFinish
    \/ DownloadDone
    \/ NewLocalBucket
    \/ OpenTake
    \/ OpenFinish
    \/ OpenDone
    \/ CompactFails
    \/ Compact
    \/ MarkEmpty
    \/ MarkEmptyReturn
    \/ Verify
    \/ UploadTake
    \/ UploadFinish
    \/ UploadDone
    \/ MarkSources
    \/ MarkSourcesReturn
    \/ Deferred
    \/ WorkerAfterJob

SpecJob == InitJob /\ [][NextJob]_vars

\* ---------------------------------------- verifyCompactedBlocksTimeRanges

\* Largest number of ULIDs passed to verifyCompactedBlocksTimeRanges.
MaxOutputs == 2

\* What block.ReadMetaFromDir may find for the block of position i: the read
\* fails, or it gives a meta with some time range.
DirEntries ==
    {[ok |-> FALSE, MinTime |-> 0, MaxTime |-> 0]}
    \cup
    {m \in {[ok |-> TRUE, MinTime |-> lo, MaxTime |-> hi] :
                lo \in OutTimes, hi \in OutTimes} :
        m.MinTime <= m.MaxTime}

VerifyArgs ==
    UNION {{[compIDs |-> ids, srcMin |-> lo, srcMax |-> hi, dir |-> d] :
               ids \in {s \in [1..n -> {ZeroULID} \cup {OutULID(i) : i \in 1..n}] :
                           \A i \in 1..n : s[i] \in {ZeroULID, OutULID(i)}},
               lo \in SrcTimes, hi \in SrcTimes,
               d \in [{OutULID(i) : i \in 1..n} -> DirEntries]} :
           n \in 0..MaxOutputs}

InitVerify ==
    /\ vArgs \in {a \in VerifyArgs : a.srcMin <= a.srcMax}
    /\ vRes = "unset"
    /\ job = CHOOSE j \in Jobs : TRUE
    /\ JobIdle
    /\ RestIdle

\* One call of verifyCompactedBlocksTimeRanges.
VerifyCall ==
    /\ vRes = "unset"
    /\ vRes' = verifyCompactedBlocksTimeRanges(vArgs.compIDs, vArgs.srcMin,
                                               vArgs.srcMax, vArgs.dir)
    /\ UNCHANGED <<vArgs, jobVars, restVars>>

NextVerify == VerifyCall

SpecVerify == InitVerify /\ [][NextVerify]_vars

\* ------------------------------------------------ BucketCompactor.Compact

\* Largest value of BucketCompactor.concurrency.
MaxConcurrency == 2

\* Number of compaction groups the bucket can hold blocks of.
MaxGroups == 2

\* Iterations of the outer loop of Compact that are followed.
MaxPasses == 2

\* The blocks the bucket can hold: block k is the one block of group k.
BlockIDs == 1..MaxGroups

\* Key of the group the Grouper puts a block in.
GroupKey(id) == id

\* The orders in which the Grouper may list the jobs built from metas.
Groups(metas) ==
    {s \in [1..Cardinality(metas) -> {GroupKey(id) : id \in metas}] :
        \A i, j \in 1..Cardinality(metas) : i # j => s[i] # s[j]}

\* append(jobs[:i], jobs[i+1:]...)
RemoveAt(js, i) == SubSeq(js, 1, i - 1) \o SubSeq(js, i + 1, Len(js))

OwnOutcomes == {"true", "false", "error"}

\* Mutant of filterOwnLoop: ix moves on after a removal too.
RECURSIVE filterOwnLoop_SkipNext(_, _, _)
filterOwnLoop_SkipNext(js, ix, own) ==
    IF ix > Len(js)
    THEN [jobs |-> js, err |-> "nil"]
    ELSE IF own[js[ix]] = "error"
         THEN [jobs |-> <<>>, err |-> "ownJob"]
         ELSE IF own[js[ix]] = "false"
              THEN filterOwnLoop_SkipNext(RemoveAt(js, ix), ix + 1, own)
              ELSE filterOwnLoop_SkipNext(js, ix + 1, own)

\* The loop of filterOwnJobs, own[k] being what ownJob answers for job k.
RECURSIVE filterOwnLoop(_, _, _)
filterOwnLoop(js, ix, own) ==
    IF ix > Len(js)
    THEN [jobs |-> js, err |-> "nil"]
    ELSE IF own[js[ix]] = "error"
         THEN [jobs |-> <<>>, err |-> "ownJob"]
         ELSE IF own[js[ix]] = "false"
              THEN filterOwnLoop(RemoveAt(js, ix), ix, own)
              ELSE filterOwnLoop(js, ix + 1, own)

filterOwnJobs(js, own) == filterOwnLoop(js, 1, own)

WaitOutcomes == {"elapsed", "notElapsed", "error"}

\* Mutant of filterWaitLoop: a job whose check failed is removed too.
RECURSIVE filterWaitLoop_DropOnError(_, _, _)
filterWaitLoop_DropOnError(js, i, res) ==
    IF i > Len(js)
    THEN js
    ELSE IF res[js[i]] = "elapsed"
         THEN filterWaitLoop_DropOnError(js, i + 1, res)
         ELSE filterWaitLoop_DropOnError(RemoveAt(js, i), i, res)

\* The loop of filterJobsByWaitPeriod, res[k] being what jobWaitPeriodElapsed
\* answers for job k.
RECURSIVE filterWaitLoop(_, _, _)
filterWaitLoop(js, i, res) ==
    IF i > Len(js)
    THEN js
    ELSE IF res[js[i]] = "error"
         THEN filterWaitLoop(js, i + 1, res)
         ELSE IF res[js[i]] = "notElapsed"
              THEN filterWaitLoop(RemoveAt(js, i), i, res)
              ELSE filterWaitLoop(js, i + 1, res)

filterJobsByWaitPeriod(js, res) == filterWaitLoop(js, 1, res)

\* The configured ordering of the jobs: by group key, ascending.
RECURSIVE sortedKeys(_)
sortedKeys(S) ==
    IF S = {}
    THEN <<>>
    ELSE LET k == CHOOSE x \in S : \A y \in S : x <= y
         IN  <<k>> \o sortedKeys(S \ {k})

sortJobs(js) == sortedKeys(Range(js))

\* What runCompactionJob may return to the worker.
RunOutcomes ==
    {[shouldRerun |-> FALSE, compIDs |-> <<>>, rerr |-> "nil"],
     [shouldRerun |-> TRUE, compIDs |-> <<>>, rerr |-> "nil"],
     [shouldRerun |-> TRUE, compIDs |-> <<OutULID(1)>>, rerr |-> "nil"],
     [shouldRerun |-> FALSE, compIDs |-> <<>>, rerr |-> "error"]}

InitCompact ==
    /\ concurrency \in 1..MaxConcurrency
    /\ timer \in {"off", "armed"}
    /\ CompactIdle
    /\ SyncerIdle
    /\ ctxDone = FALSE
    /\ halfMarked = {}
    /\ FsIdle
    /\ AuxIdle
    /\ job = CHOOSE j \in Jobs : TRUE
    /\ JobIdle
    /\ VerifyIdle

\* Mutant of Workers: one goroutine more than configured is started.
Workers_OneMore == 1..(concurrency + 1)

\* The worker goroutines a pass starts.
Workers == 1..concurrency

\* A return statement of Compact; the deferred workCtxCancel runs.
CompactReturn(err) ==
    /\ cpc' = "returned"
    /\ compactErr' = err
    /\ workCtxCancelled' = TRUE

\* The head of the outer loop: the locals of the pass are created and the
\* workers started; each blocks on jobChan.
StartPass ==
    /\ cpc = "loop"
    /\ pass < MaxPasses
    /\ pass' = pass + 1
    /\ workCtxCancelled' = FALSE
    /\ errChan' = <<>>
    /\ finishedAllJobs' = TRUE
    /\ wst' = [w \in Workers |-> "waiting"]
    /\ wjob' = [w \in Workers |-> 0]
    /\ wret' = [w \in Workers |-> NoRet]
    /\ jobs' = <<>>
    /\ jobIdx' = 1
    /\ jobErrs' = {}
    /\ maxCompactionTimeReached' = FALSE
    /\ waitIn' = NoWaitIn
    /\ waitSkipped' = {}
    /\ passErrs' = {}
    /\ passRerun' = FALSE
    /\ cpc' = "sync"
    /\ UNCHANGED <<concurrency, timer, compactErr, blocks,
                   groupCompactionRunsStarted, groupCompactionRunsCompleted,
                   groupCompactionRunsFailed, groupCompactions, jobLocal,
                   verVars, callVars, ctxDone, halfMarked, fsVars, auxVars>>

\* Mutant of syncedBlocks: the map is replaced before the error is looked at.
syncedBlocks_AssignFirst(metas, err) == metas

\* Syncer.blocks after SyncMetas, given what the fetcher returned.
syncedBlocks(metas, err) == IF err THEN blocks ELSE metas

\* Mutant of SyncMetas: the pass goes from the sync straight to the grouping.
SyncMetas_SkipGC ==
    /\ cpc = "sync"
    /\ \E metas \in SUBSET BlockIDs, err \in BOOLEAN :
          /\ blocks' = syncedBlocks(metas, err)
          /\ IF err
             THEN CompactReturn("sync")
             ELSE cpc' = "group" /\ UNCHANGED <<compactErr, workCtxCancelled>>
    /\ UNCHANGED <<concurrency, pass, jobs, jobIdx, errChan, jobErrs,
                   finishedAllJobs, maxCompactionTimeReached, timer, wst,
                   wjob, wret, waitIn, waitSkipped, passErrs, passRerun,
                   groupCompactionRunsStarted, groupCompactionRunsCompleted,
                   groupCompactionRunsFailed, groupCompactions, jobLocal,
                   verVars, callVars, ctxDone, halfMarked, fsVars, auxVars>>

\* c.sy.SyncMetas(ctx)
SyncMetas ==
    /\ cpc = "sync"
    /\ \E metas \in SUBSET BlockIDs, err \in BOOLEAN :
          /\ blocks' = syncedBlocks(metas, err)
          /\ IF err
             THEN CompactReturn("sync")
             ELSE cpc' = "gc" /\ UNCHANGED <<compactErr, workCtxCancelled>>
    /\ UNCHANGED <<concurrency, pass, jobs, jobIdx, errChan, jobErrs,
                   finishedAllJobs, maxCompactionTimeReached, timer, wst,
                   wjob, wret, waitIn, waitSkipped, passErrs, passRerun,
                   groupCompactionRunsStarted, groupCompactionRunsCompleted,
                   groupCompactionRunsFailed, groupCompactions, jobLocal,
                   verVars, callVars, ctxDone, halfMarked, fsVars, auxVars>>

\* c.sy.GarbageCollect(ctx): the ids in done were marked and deleted from
\* the map; the call fails at the first id it cannot mark.
GarbageCollectStep ==
    /\ cpc = "gc"
    /\ \E ids \in SUBSET BlockIDs :
          \E done \in SUBSET ids, err \in BOOLEAN :
             /\ err \/ done = ids
             /\ blocks' = blocks \ done
             /\ IF err
                THEN CompactReturn("blocks garbage collect")
                ELSE /\ cpc' = "group"
                     /\ UNCHANGED <<compactErr, workCtxCancelled>>
    /\ UNCHANGED <<concurrency, pass, jobs, jobIdx, errChan, jobErrs,
                   finishedAllJobs, maxCompactionTimeReached, timer, wst,
                   wjob, wret, waitIn, waitSkipped, passErrs, passRerun,
                   groupCompactionRunsStarted, groupCompactionRunsCompleted,
                   groupCompactionRunsFailed, groupCompactions, jobLocal,
                   verVars, callVars, ctxDone, halfMarked, fsVars>>

\* GarbageCollectStep where the marks in the bucket are not followed.
GarbageCollect == GarbageCollectStep /\ UNCHANGED auxVars

\* c.grouper.Groups(c.sy.Metas())
BuildJobs ==
    /\ cpc = "group"
    /\ \/ /\ \E js \in Groups(blocks) : jobs' = js
          /\ cpc' = "filterOwn"
          /\ UNCHANGED <<compactErr, workCtxCancelled>>
       \/ /\ CompactReturn("build compaction jobs")
          /\ UNCHANGED jobs
    /\ UNCHANGED <<concurrency, pass, jobIdx, errChan, jobErrs,
                   finishedAllJobs, maxCompactionTimeReached, timer, wst,
                   wjob, wret, waitIn, waitSkipped, passErrs, passRerun,
                   blocks, groupCompactionRunsStarted,
                   groupCompactionRunsCompleted, groupCompactionRunsFailed,
                   groupCompactions, jobLocal, verVars, callVars, ctxDone,
                   halfMarked, fsVars, auxVars>>

\* jobs, err = c.filterOwnJobs(jobs), own[k] being what ownJob answers for
\* job k.
FilterOwnWith(own) ==
    /\ cpc = "filterOwn"
    /\ LET r == filterOwnJobs(jobs, own)
       IN  IF r.err = "nil"
           THEN /\ jobs' = r.jobs
                /\ cpc' = "filterWait"
                /\ UNCHANGED <<compactErr, workCtxCancelled>>
           ELSE /\ CompactReturn(r.err)
                /\ UNCHANGED jobs
    /\ UNCHANGED <<concurrency, pass, jobIdx, errChan, jobErrs,
                   finishedAllJobs, maxCompactionTimeReached, timer, wst,
                   wjob, wret, waitIn, waitSkipped, passErrs, passRerun,
                   blocks, groupCompactionRunsStarted,
                   groupCompactionRunsCompleted, groupCompactionRunsFailed,
                   groupCompactions, jobLocal, verVars, callVars, ctxDone,
                   halfMarked, fsVars>>

\* jobs, err = c.filterOwnJobs(jobs), whatever ownJob answers.
FilterOwn ==
    /\ \E own \in [Range(jobs) -> OwnOutcomes] : FilterOwnWith(own)
    /\ UNCHANGED auxVars

\* jobs = c.filterJobsByWaitPeriod(ctx, jobs), seen as it returns.
FilterWait ==
    /\ cpc = "filterWait"
    /\ \E res \in [Range(jobs) -> WaitOutcomes] :
          /\ waitIn' = [jobs |-> jobs, res |-> res]
          /\ jobs' = filterJobsByWaitPeriod(jobs, res)
    /\ cpc' = "sort"
    /\ UNCHANGED <<concurrency, pass, jobIdx, errChan, jobErrs,
                   finishedAllJobs, maxCompactionTimeReached, timer, wst,
                   wjob, wret, workCtxCancelled, compactErr, waitSkipped,
                   passErrs, passRerun, blocks, groupCompactionRunsStarted,
                   groupCompactionRunsCompleted, groupCompactionRunsFailed,
                   groupCompactions, jobLocal, verVars, callVars, ctxDone,
                   halfMarked, fsVars, auxVars>>

\* jobs = c.sortJobs(jobs); the dispatch loop is entered.
SortJobsStep ==
    /\ cpc = "sort"
    /\ jobs' = sortJobs(jobs)
    /\ waitSkipped' = Range(waitIn.jobs) \ Range(jobs)
    /\ waitIn' = NoWaitIn
    /\ jobIdx' = 1
    /\ cpc' = "dispatch"
    /\ UNCHANGED <<concurrency, pass, errChan, jobErrs, finishedAllJobs,
                   maxCompactionTimeReached, timer, wst, wjob, wret,
                   workCtxCancelled, compactErr, passErrs, passRerun, blocks,
                   groupCompactionRunsStarted, groupCompactionRunsCompleted,
                   groupCompactionRunsFailed, groupCompactions, jobLocal,
                   verVars, callVars, ctxDone, halfMarked, auxVars>>

\* SortJobsStep where the directories are not followed.
SortJobs == SortJobsStep /\ UNCHANGED fsVars

\* The timer of time.After(maxCompactionTime) fires.
TimerFires ==
    /\ timer = "armed"
    /\ cpc # "returned"
    /\ timer' = "fired"
    /\ UNCHANGED <<concurrency, cpc, pass, jobs, jobIdx, errChan, jobErrs,
                   finishedAllJobs, maxCompactionTimeReached, wst, wjob,
                   wret, workCtxCancelled, compactErr, waitIn, waitSkipped,
                   passErrs, passRerun, blocks, groupCompactionRunsStarted,
                   groupCompactionRunsCompleted, groupCompactionRunsFailed,
                   groupCompactions, jobLocal, verVars, callVars, ctxDone,
                   halfMarked, fsVars, auxVars>>

\* select, case jobErr := <-errChan; then close(jobChan).
DispatchRecvErr ==
    /\ cpc = "dispatch"
    /\ jobIdx <= Len(jobs)
    /\ errChan # <<>>
    /\ jobErrs' = jobErrs \cup {Head(errChan)}
    /\ errChan' = Tail(errChan)
    /\ cpc' = "wait"
    /\ UNCHANGED <<concurrency, pass, jobs, jobIdx, finishedAllJobs,
                   maxCompactionTimeReached, timer, wst, wjob, wret,
                   workCtxCancelled, compactErr, waitIn, waitSkipped,
                   passErrs, passRerun, blocks, groupCompactionRunsStarted,
                   groupCompactionRunsCompleted, groupCompactionRunsFailed,
                   groupCompactions, jobLocal, verVars, callVars, ctxDone,
                   halfMarked, fsVars, auxVars>>

\* Mutant of DispatchSend: every worker blocked on jobChan receives the job.
DispatchSend_Broadcast(w) ==
    /\ cpc = "dispatch"
    /\ jobIdx <= Len(jobs)
    /\ wst[w] = "waiting"
    /\ \A v \in DOMAIN wst : v < w => wst[v] # "waiting"
    /\ wst' = [v \in DOMAIN wst |->
                  IF wst[v] = "waiting" THEN "got" ELSE wst[v]]
    /\ wjob' = [v \in DOMAIN wst |->
                   IF wst[v] = "waiting" THEN jobs[jobIdx] ELSE wjob[v]]
    /\ jobIdx' = jobIdx + 1
    /\ UNCHANGED <<concurrency, cpc, pass, jobs, errChan, jobErrs,
                   finishedAllJobs, maxCompactionTimeReached, timer, wret,
                   workCtxCancelled, compactErr, waitIn, waitSkipped,
                   passErrs, passRerun, blocks, groupCompactionRunsStarted,
                   groupCompactionRunsCompleted, groupCompactionRunsFailed,
                   groupCompactions, jobLocal, verVars, callVars, ctxDone,
                   halfMarked, fsVars, auxVars>>

\* select, case jobChan <- g: a worker blocked on jobChan receives g. The
\* goroutines run the same code and carry no identity, so of those blocked
\* the one of least index stands for whichever the runtime picks.
DispatchSend(w) ==
    /\ cpc = "dispatch"
    /\ jobIdx <= Len(jobs)
    /\ wst[w] = "waiting"
    /\ \A v \in DOMAIN wst : v < w => wst[v] # "waiting"
    /\ wst' = [wst EXCEPT ![w] = "got"]
    /\ wjob' = [wjob EXCEPT ![w] = jobs[jobIdx]]
    /\ jobIdx' = jobIdx + 1
    /\ UNCHANGED <<concurrency, cpc, pass, jobs, errChan, jobErrs,
                   finishedAllJobs, maxCompactionTimeReached, timer, wret,
                   workCtxCancelled, compactErr, waitIn, waitSkipped,
                   passErrs, passRerun, blocks, groupCompactionRunsStarted,
                   groupCompactionRunsCompleted, groupCompactionRunsFailed,
                   groupCompactions, jobLocal, verVars, callVars, ctxDone,
                   halfMarked, fsVars, auxVars>>

\* select, case <-maxCompactionTimeChan; then close(jobChan).
DispatchTimeout ==
    /\ cpc = "dispatch"
    /\ jobIdx <= Len(jobs)
    /\ timer = "fired"
    /\ timer' = "read"
    /\ maxCompactionTimeReached' = TRUE
    /\ cpc' = "wait"
    /\ UNCHANGED <<concurrency, pass, jobs, jobIdx, errChan, jobErrs,
                   finishedAllJobs, wst, wjob, wret, workCtxCancelled,
                   compactErr, waitIn, waitSkipped, passErrs, passRerun,
                   blocks, groupCompactionRunsStarted,
                   groupCompactionRunsCompleted, groupCompactionRunsFailed,
                   groupCompactions, jobLocal, verVars, callVars, ctxDone,
                   halfMarked, fsVars, auxVars>>

\* The dispatch loop has gone through all jobs; close(jobChan).
DispatchEnd ==
    /\ cpc = "dispatch"
    /\ jobIdx > Len(jobs)
    /\ cpc' = "wait"
    /\ UNCHANGED <<concurrency, pass, jobs, jobIdx, errChan, jobErrs,
                   finishedAllJobs, maxCompactionTimeReached, timer, wst,
                   wjob, wret, workCtxCancelled, compactErr, waitIn,
                   waitSkipped, passErrs, passRerun, blocks,
                   groupCompactionRunsStarted, groupCompactionRunsCompleted,
                   groupCompactionRunsFailed, groupCompactions, jobLocal,
                   verVars, callVars, ctxDone, halfMarked, fsVars, auxVars>>

\* The worker asks ownJob about the job it received.
WorkerOwnJob(w) ==
    /\ wst[w] = "got"
    /\ \E st \in {"owned", "notOwned", "ownErr"} :
          wst' = [wst EXCEPT ![w] = st]
    /\ UNCHANGED <<concurrency, cpc, pass, jobs, jobIdx, errChan, jobErrs,
                   finishedAllJobs, maxCompactionTimeReached, timer, wjob,
                   wret, workCtxCancelled, compactErr, waitIn, waitSkipped,
                   passErrs, passRerun, blocks, groupCompactionRunsStarted,
                   groupCompactionRunsCompleted, groupCompactionRunsFailed,
                   groupCompactions, jobLocal, verVars, callVars, ctxDone,
                   halfMarked, fsVars, auxVars>>

\* Mutant of WorkerSkip: the skipped job is counted as a started run.
WorkerSkip_Counted(w) ==
    /\ wst[w] \in {"notOwned", "ownErr"}
    /\ wst' = [wst EXCEPT ![w] = "waiting"]
    /\ wjob' = [wjob EXCEPT ![w] = 0]
    /\ groupCompactionRunsStarted' = groupCompactionRunsStarted + 1
    /\ UNCHANGED <<concurrency, cpc, pass, jobs, jobIdx, errChan, jobErrs,
                   finishedAllJobs, maxCompactionTimeReached, timer, wret,
                   workCtxCancelled, compactErr, waitIn, waitSkipped,
                   passErrs, passRerun, blocks, groupCompactionRunsCompleted,
                   groupCompactionRunsFailed, groupCompactions, jobLocal,
                   verVars, callVars, ctxDone, halfMarked, fsVars, auxVars>>

\* ownJob failed or answered false: continue with the next job.
WorkerSkip(w) ==
    /\ wst[w] \in {"notOwned", "ownErr"}
    /\ wst' = [wst EXCEPT ![w] = "waiting"]
    /\ wjob' = [wjob EXCEPT ![w] = 0]
    /\ UNCHANGED <<concurrency, cpc, pass, jobs, jobIdx, errChan, jobErrs,
                   finishedAllJobs, maxCompactionTimeReached, timer, wret,
                   workCtxCancelled, compactErr, waitIn, waitSkipped,
                   passErrs, passRerun, blocks, groupCompactionRunsStarted,
                   groupCompactionRunsCompleted, groupCompactionRunsFailed,
                   groupCompactions, jobLocal, verVars, callVars, ctxDone,
                   halfMarked, fsVars, auxVars>>

\* The job is owned: the run is counted and runCompactionJob called.
WorkerRunStep(w) ==
    /\ wst[w] = "owned"
    /\ groupCompactionRunsStarted' = groupCompactionRunsStarted + 1
    /\ wst' = [wst EXCEPT ![w] = "running"]
    /\ UNCHANGED <<concurrency, cpc, pass, jobs, jobIdx, errChan, jobErrs,
                   finishedAllJobs, maxCompactionTimeReached, timer, wjob,
                   wret, workCtxCancelled, compactErr, waitIn, waitSkipped,
                   passErrs, passRerun, blocks, groupCompactionRunsCompleted,
                   groupCompactionRunsFailed, groupCompactions, jobLocal,
                   verVars, callVars, ctxDone, halfMarked, auxVars>>

\* WorkerRunStep where the directories are not followed.
WorkerRun(w) == WorkerRunStep(w) /\ UNCHANGED fsVars

\* Mutant of JobReturns: the worker takes every run that returns no error
\* to ask for another pass.
JobReturns_AlwaysRerun(w) ==
    /\ wst[w] = "running"
    /\ \E o \in RunOutcomes :
          /\ wret' = [wret EXCEPT ![w] = [o EXCEPT !.shouldRerun =
                                                      o.rerr = "nil"]]
          /\ passRerun' = (passRerun \/ (o.rerr = "nil" /\ o.shouldRerun))
          /\ passErrs' = IF o.rerr = "nil" THEN passErrs
                         ELSE passErrs \cup {wjob[w]}
    /\ wst' = [wst EXCEPT ![w] = "returned"]
    /\ UNCHANGED <<concurrency, cpc, pass, jobs, jobIdx, errChan, jobErrs,
                   finishedAllJobs, maxCompactionTimeReached, timer, wjob,
                   workCtxCancelled, compactErr, waitIn, waitSkipped, blocks,
                   groupCompactionRunsStarted, groupCompactionRunsCompleted,
                   groupCompactionRunsFailed, groupCompactions, jobLocal,
                   verVars, callVars, ctxDone, halfMarked, fsVars, auxVars>>

\* Mutant of JobReturnsWith: shouldRerun is not looked at.
JobReturnsWith_RerunIgnored(w, o) ==
    /\ wst[w] = "running"
    /\ wst' = [wst EXCEPT ![w] = "returned"]
    /\ wret' = [wret EXCEPT ![w] = [o EXCEPT !.shouldRerun = FALSE]]
    /\ passRerun' = (passRerun \/ (o.rerr = "nil" /\ o.shouldRerun))
    /\ passErrs' = IF o.rerr = "nil" THEN passErrs
                   ELSE passErrs \cup {wjob[w]}
    /\ UNCHANGED <<concurrency, cpc, pass, jobs, jobIdx, errChan, jobErrs,
                   finishedAllJobs, maxCompactionTimeReached, timer, wjob,
                   workCtxCancelled, compactErr, waitIn, waitSkipped, blocks,
                   groupCompactionRunsStarted, groupCompactionRunsCompleted,
                   groupCompactionRunsFailed, groupCompactions, jobLocal,
                   verVars, callVars, ctxDone, halfMarked>>

\* shouldRerunJob, compactedBlockIDs, err := c.runCompactionJob(workCtx, g):
\* the call returns o to the worker. passRerun and passErrs keep what the
\* runs of the pass have returned.
JobReturnsWith(w, o) ==
    /\ wst[w] = "running"
    /\ wst' = [wst EXCEPT ![w] = "returned"]
    /\ wret' = [wret EXCEPT ![w] = o]
    /\ passRerun' = (passRerun \/ (o.rerr = "nil" /\ o.shouldRerun))
    /\ passErrs' = IF o.rerr = "nil" THEN passErrs
                   ELSE passErrs \cup {wjob[w]}
    /\ UNCHANGED <<concurrency, cpc, pass, jobs, jobIdx, errChan, jobErrs,
                   finishedAllJobs, maxCompactionTimeReached, timer, wjob,
                   workCtxCancelled, compactErr, waitIn, waitSkipped, blocks,
                   groupCompactionRunsStarted, groupCompactionRunsCompleted,
                   groupCompactionRunsFailed, groupCompactions, jobLocal,
                   verVars, callVars, ctxDone, halfMarked>>

\* runCompactionJob returns to the worker, whatever the job did.
JobReturnsStep(w) ==
    /\ \E o \in RunOutcomes : JobReturnsWith(w, o)
    /\ UNCHANGED auxVars

\* JobReturnsStep where the directories are not followed.
JobReturns(w) == JobReturnsStep(w) /\ UNCHANGED fsVars

\* Mutant of WorkerCounts: every run that returns no error counts as a
\* compaction, whatever blocks it produced.
WorkerCounts_CountsEmpty(w) ==
    /\ wst[w] = "returned"
    /\ IF wret[w].rerr = "nil"
       THEN /\ groupCompactionRunsCompleted' =
                  groupCompactionRunsCompleted + 1
            /\ groupCompactions' = groupCompactions + 1
            /\ wst' = [wst EXCEPT ![w] =
                         IF wret[w].shouldRerun THEN "flagging"
                         ELSE "waiting"]
            /\ wjob' = [wjob EXCEPT ![w] =
                          IF wret[w].shouldRerun THEN @ ELSE 0]
            /\ UNCHANGED groupCompactionRunsFailed
       ELSE /\ groupCompactionRunsFailed' = groupCompactionRunsFailed + 1
            /\ wst' = [wst EXCEPT ![w] = "sending"]
            /\ UNCHANGED <<groupCompactionRunsCompleted, groupCompactions,
                           wjob>>
    /\ wret' = [wret EXCEPT ![w] = NoRet]
    /\ UNCHANGED <<concurrency, cpc, pass, jobs, jobIdx, errChan, jobErrs,
                   finishedAllJobs, maxCompactionTimeReached, timer,
                   workCtxCancelled, compactErr, waitIn, waitSkipped,
                   passErrs, passRerun, blocks, groupCompactionRunsStarted,
                   jobLocal, verVars, callVars, ctxDone, halfMarked, fsVars,
                   auxVars>>

\* The worker counts the run: with err == nil groupCompactionRunsCompleted
\* and, for a non-zero output ULID, groupCompactions, and it goes on to
\* mtx.Lock() if shouldRerunJob; with an error groupCompactionRunsFailed.
WorkerCounts(w) ==
    /\ wst[w] = "returned"
    /\ IF wret[w].rerr = "nil"
       THEN /\ groupCompactionRunsCompleted' =
                  groupCompactionRunsCompleted + 1
            /\ groupCompactions' =
                  IF hasNonZeroULIDs(wret[w].compIDs)
                  THEN groupCompactions + 1
                  ELSE groupCompactions
            /\ wst' = [wst EXCEPT ![w] =
                         IF wret[w].shouldRerun THEN "flagging"
                         ELSE "waiting"]
            /\ wjob' = [wjob EXCEPT ![w] =
                          IF wret[w].shouldRerun THEN @ ELSE 0]
            /\ UNCHANGED groupCompactionRunsFailed
       ELSE /\ groupCompactionRunsFailed' = groupCompactionRunsFailed + 1
            /\ wst' = [wst EXCEPT ![w] = "sending"]
            /\ UNCHANGED <<groupCompactionRunsCompleted, groupCompactions,
                           wjob>>
    /\ wret' = [wret EXCEPT ![w] = NoRet]
    /\ UNCHANGED <<concurrency, cpc, pass, jobs, jobIdx, errChan, jobErrs,
                   finishedAllJobs, maxCompactionTimeReached, timer,
                   workCtxCancelled, compactErr, waitIn, waitSkipped,
                   passErrs, passRerun, blocks, groupCompactionRunsStarted,
                   jobLocal, verVars, callVars, ctxDone, halfMarked, fsVars,
                   auxVars>>

\* mtx.Lock(); finishedAllJobs = false; mtx.Unlock(); continue. The mutex
\* guards this one assignment, so the three are one step.
WorkerSetRerun(w) ==
    /\ wst[w] = "flagging"
    /\ finishedAllJobs' = FALSE
    /\ wst' = [wst EXCEPT ![w] = "waiting"]
    /\ wjob' = [wjob EXCEPT ![w] = 0]
    /\ UNCHANGED <<concurrency, cpc, pass, jobs, jobIdx, errChan, jobErrs,
                   maxCompactionTimeReached, timer, wret, workCtxCancelled,
                   compactErr, waitIn, waitSkipped, passErrs, passRerun,
                   blocks, groupCompactionRunsStarted,
                   groupCompactionRunsCompleted, groupCompactionRunsFailed,
                   groupCompactions, jobLocal, verVars, callVars, ctxDone,
                   halfMarked, fsVars, auxVars>>

\* Mutant of WorkerSendErr: errChan has room for one error less than there
\* are workers.
WorkerSendErr_SmallerBuffer(w) ==
    /\ wst[w] = "sending"
    /\ Len(errChan) < concurrency - 1
    /\ errChan' = Append(errChan, wjob[w])
    /\ wst' = [wst EXCEPT ![w] = "exited"]
    /\ wjob' = [wjob EXCEPT ![w] = 0]
    /\ UNCHANGED <<concurrency, cpc, pass, jobs, jobIdx, jobErrs,
                   finishedAllJobs, maxCompactionTimeReached, timer, wret,
                   workCtxCancelled, compactErr, waitIn, waitSkipped,
                   passErrs, passRerun, blocks, groupCompactionRunsStarted,
                   groupCompactionRunsCompleted, groupCompactionRunsFailed,
                   groupCompactions, jobLocal, verVars, callVars, ctxDone,
                   halfMarked, fsVars, auxVars>>

\* errChan <- err, then the worker returns.
WorkerSendErr(w) ==
    /\ wst[w] = "sending"
    /\ Len(errChan) < concurrency
    /\ errChan' = Append(errChan, wjob[w])
    /\ wst' = [wst EXCEPT ![w] = "exited"]
    /\ wjob' = [wjob EXCEPT ![w] = 0]
    /\ UNCHANGED <<concurrency, cpc, pass, jobs, jobIdx, jobErrs,
                   finishedAllJobs, maxCompactionTimeReached, timer, wret,
                   workCtxCancelled, compactErr, waitIn, waitSkipped,
                   passErrs, passRerun, blocks, groupCompactionRunsStarted,
                   groupCompactionRunsCompleted, groupCompactionRunsFailed,
                   groupCompactions, jobLocal, verVars, callVars, ctxDone,
                   halfMarked, fsVars, auxVars>>

\* range jobChan ends for a worker once jobChan is closed.
WorkerExit(w) ==
    /\ wst[w] = "waiting"
    /\ cpc = "wait"
    /\ wst' = [wst EXCEPT ![w] = "exited"]
    /\ UNCHANGED <<concurrency, cpc, pass, jobs, jobIdx, errChan, jobErrs,
                   finishedAllJobs, maxCompactionTimeReached, timer, wjob,
                   wret, workCtxCancelled, compactErr, waitIn, waitSkipped,
                   passErrs, passRerun, blocks, groupCompactionRunsStarted,
                   groupCompactionRunsCompleted, groupCompactionRunsFailed,
                   groupCompactions, jobLocal, verVars, callVars, ctxDone,
                   halfMarked, fsVars, auxVars>>

\* Mutant of WgWait: the supervisor goes on while workers still run.
WgWait_NoWait == TRUE

\* wg.Wait() returns.
WgWait == \A w \in DOMAIN wst : wst[w] = "exited"

\* Mutant of drainErrChan: what is left in errChan is dropped.
drainErrChan_Dropped == jobErrs

\* jobErrs once the closed errChan has been read to its end.
drainErrChan == jobErrs \cup Range(errChan)

\* Mutant of LoopBreaks: the loop ends after every pass.
LoopBreaks_Always == TRUE

\* The condition of the break that ends the outer loop.
LoopBreaks == maxCompactionTimeReached \/ finishedAllJobs

\* After wg.Wait(): errChan is drained, the work context cancelled, and
\* Compact returns or goes round the loop.
EndPassStep ==
    /\ cpc = "wait"
    /\ WgWait
    /\ jobErrs' = drainErrChan
    /\ errChan' = <<>>
    /\ workCtxCancelled' = TRUE
    /\ IF drainErrChan # {}
       THEN cpc' = "returned" /\ compactErr' = "jobs"
       ELSE IF LoopBreaks
            THEN cpc' = "returned" /\ compactErr' = "nil"
            ELSE cpc' = "loop" /\ UNCHANGED compactErr
    /\ UNCHANGED <<concurrency, pass, jobs, jobIdx, finishedAllJobs,
                   maxCompactionTimeReached, timer, wst, wjob, wret, waitIn,
                   waitSkipped, passErrs, passRerun, blocks,
                   groupCompactionRunsStarted, groupCompactionRunsCompleted,
                   groupCompactionRunsFailed, groupCompactions, jobLocal,
                   verVars, callVars, ctxDone, halfMarked, auxVars>>

\* EndPassStep where the directories are not followed.
EndPass == EndPassStep /\ UNCHANGED fsVars

NextCompact ==
    \/ StartPass
    \/ SyncMetas
    \/ GarbageCollect
    \/ BuildJobs
    \/ FilterOwn
    \/ FilterWait
    \/ SortJobs
    \/ TimerFires
    \/ DispatchRecvErr
    \/ \E w \in DOMAIN wst : DispatchSend(w)
    \/ DispatchTimeout
    \/ DispatchEnd
    \/ \E w \in DOMAIN wst : WorkerOwnJob(w)
    \/ \E w \in DOMAIN wst : WorkerSkip(w)
    \/ \E w \in DOMAIN wst : WorkerRun(w)
    \/ \E w \in DOMAIN wst : JobReturns(w)
    \/ \E w \in DOMAIN wst : WorkerCounts(w)
    \/ \E w \in DOMAIN wst : WorkerSetRerun(w)
    \/ \E w \in DOMAIN wst : WorkerSendErr(w)
    \/ \E w \in DOMAIN wst : WorkerExit(w)
    \/ EndPass

SpecCompact == InitCompact /\ [][NextCompact]_vars

\* The goroutine that runs Compact, from dispatch to the end of the pass.
dispatcher ==
    \/ DispatchRecvErr
    \/ \E w \in DOMAIN wst : DispatchSend(w)
    \/ DispatchTimeout
    \/ DispatchEnd
    \/ EndPass

\* One worker goroutine of a pass; runCompactionJob returns.
worker(w) ==
    /\ w \in DOMAIN wst
    /\ \/ WorkerOwnJob(w)
       \/ WorkerSkip(w)
       \/ WorkerRun(w)
       \/ JobReturns(w)
       \/ WorkerCounts(w)
       \/ WorkerSetRerun(w)
       \/ WorkerSendErr(w)
       \/ WorkerExit(w)

\* The first pass of a Compact call at the head of its dispatch loop: the
\* workers are parked on jobChan, the job list is any sorted list of group
\* keys, and the time budget is absent, running or already spent.
InitDispatch ==
    /\ concurrency \in 1..MaxConcurrency
    /\ timer \in {"off", "armed", "fired"}
    /\ cpc = "dispatch"
    /\ pass = 1
    /\ jobs \in {sortJobs(sortedKeys(S)) : S \in SUBSET BlockIDs}
    /\ jobIdx = 1
    /\ errChan = <<>>
    /\ jobErrs = {}
    /\ finishedAllJobs = TRUE
    /\ maxCompactionTimeReached = FALSE
    /\ wst = [w \in Workers |-> "waiting"]
    /\ wjob = [w \in Workers |-> 0]
    /\ wret = [w \in Workers |-> NoRet]
    /\ workCtxCancelled = FALSE
    /\ compactErr = "unset"
    /\ waitIn = NoWaitIn
    /\ waitSkipped = {}
    /\ passErrs = {}
    /\ passRerun = FALSE
    /\ SyncerIdle
    /\ ctxDone = FALSE
    /\ halfMarked = {}
    /\ FsIdle
    /\ AuxIdle
    /\ job = CHOOSE j \in Jobs : TRUE
    /\ JobIdle
    /\ VerifyIdle

\* The steps of the dispatcher and the workers, and the time budget.
NextDispatch ==
    \/ TimerFires
    \/ dispatcher
    \/ \E w \in DOMAIN wst : worker(w)

\* The scheduler does not stop while a goroutine of Compact can take a
\* step: the weakest assumption under which anything happens at all.
CompactFairness == WF_vars(dispatcher \/ \E w \in DOMAIN wst : worker(w))

SpecDispatch == InitDispatch /\ [][NextDispatch]_vars /\ CompactFairness

\* The runCompactionJob calls on job k that have returned.
Runs(k) == IF k \in DOMAIN runCount THEN runCount[k] ELSE 0

\* runCompactionJob returns to the worker, the call being recorded: the job
\* and the three results.
JobReturnsRec(w) ==
    /\ \E o \in RunOutcomes :
          /\ JobReturnsWith(w, o)
          /\ lastRun' = [job |-> wjob[w], shouldRerun |-> o.shouldRerun,
                         compIDs |-> o.compIDs, rerr |-> o.rerr]
    /\ runCount' = [k \in DOMAIN runCount \cup {wjob[w]} |->
                       Runs(k) + IF k = wjob[w] THEN 1 ELSE 0]
    /\ UNCHANGED <<fsVars, ncVars, twVars, ownIn, tmVars, quVars>>

\* The dispatch loop and the workers of a pass, the runs being recorded.
NextRuns ==
    \/ TimerFires
    \/ dispatcher
    \/ \E w \in DOMAIN wst : WorkerOwnJob(w)
    \/ \E w \in DOMAIN wst : WorkerSkip(w)
    \/ \E w \in DOMAIN wst : WorkerRun(w)
    \/ \E w \in DOMAIN wst : JobReturnsRec(w)
    \/ \E w \in DOMAIN wst : WorkerCounts(w)
    \/ \E w \in DOMAIN wst : WorkerSetRerun(w)
    \/ \E w \in DOMAIN wst : WorkerSendErr(w)
    \/ \E w \in DOMAIN wst : WorkerExit(w)

SpecRuns == InitDispatch /\ [][NextRuns]_vars

\* ---------------------------------------------------------- the work space

\* Mutant of subDir: every job works in compactDir itself.
subDir_CompactDir(k) == BlockIDs

\* subDir := filepath.Join(c.compactDir, job.Key()): the directories under
\* compactDir that make up the workspace of the job with key k.
subDir(k) == {k}

\* A removal succeeds unless the file system refuses removals, a creation
\* unless it refuses creations.
RemoveOutcomes == IF fsMode = "noRemove" THEN {"error"} ELSE {"ok"}

CreateOutcomes == IF fsMode = "noCreate" THEN {"error"} ELSE {"ok"}

\* os.MkdirAll(subDir, 0o750) at the start of the job with key k: compactDir
\* and the job's directory exist afterwards unless the call failed.
MkdirSubDir(k) ==
    /\ \E r \in CreateOutcomes :
          IF r = "ok"
          THEN compactDirExists' = TRUE /\ dirs' = dirs \cup subDir(k)
          ELSE UNCHANGED <<compactDirExists, dirs>>
    /\ UNCHANGED fsMode

\* os.RemoveAll(subDir), deferred in runCompactionJob: the error is logged.
RemoveAllSubDir(k) ==
    /\ \E r \in RemoveOutcomes :
          dirs' = IF r = "ok" THEN dirs \ subDir(k) ELSE dirs
    /\ UNCHANGED <<compactDirExists, fsMode>>

\* runutil.DeleteAll(c.compactDir, ignoreDirs...): what is under compactDir
\* and under no key of keep is deleted; the error is logged.
DeleteAll(keep) ==
    /\ \E r \in RemoveOutcomes :
          dirs' = IF r = "ok" THEN dirs \cap keep ELSE dirs
    /\ UNCHANGED <<compactDirExists, fsMode>>

\* Mutant of RemoveCompactDir: compactDir is removed whatever is returned.
RemoveCompactDir_Always(rerr) ==
    /\ \E r \in RemoveOutcomes :
          IF r = "ok"
          THEN compactDirExists' = FALSE /\ dirs' = {}
          ELSE UNCHANGED <<compactDirExists, dirs>>
    /\ UNCHANGED fsMode

\* The function Compact defers: nothing on an error, else
\* os.RemoveAll(c.compactDir), whose error is logged.
RemoveCompactDir(rerr) ==
    IF rerr # "nil"
    THEN UNCHANGED fsVars
    ELSE /\ \E r \in RemoveOutcomes :
               IF r = "ok"
               THEN compactDirExists' = FALSE /\ dirs' = {}
               ELSE UNCHANGED <<compactDirExists, dirs>>
         /\ UNCHANGED fsMode

\* A compactor with the most workers and no time budget starts on a sound
\* file system, where compactDir does not exist or an earlier call has left
\* it with a directory for every job key, or on one that refuses removals,
\* or on one that refuses creations and holds what an earlier call left.
InitWorkspace ==
    /\ concurrency = MaxConcurrency
    /\ timer = "off"
    /\ CompactIdle
    /\ SyncerIdle
    /\ ctxDone = FALSE
    /\ halfMarked = {}
    /\ \/ fsMode = "sound" /\ dirs \in {{}, BlockIDs}
       \/ fsMode = "noRemove" /\ dirs = {}
       \/ fsMode = "noCreate" /\ dirs = BlockIDs
    /\ compactDirExists = (dirs # {})
    /\ AuxIdle
    /\ job = CHOOSE j \in Jobs : TRUE
    /\ JobIdle
    /\ VerifyIdle

\* The job is started: runCompactionJob creates its workspace.
WorkerRunDir(w) == WorkerRunStep(w) /\ MkdirSubDir(wjob[w])

\* The job returns: its deferred function removes its workspace.
JobReturnsDir(w) == JobReturnsStep(w) /\ RemoveAllSubDir(wjob[w])

\* Before the dispatch loop, what is under compactDir and belongs to no job
\* of the pass is deleted.
SortJobsDir == SortJobsStep /\ DeleteAll(Range(jobs'))

\* Compact returns after the pass, and its deferred function runs, or it
\* goes round the loop.
EndPassDir ==
    /\ EndPassStep
    /\ IF cpc' = "returned"
       THEN RemoveCompactDir(compactErr')
       ELSE UNCHANGED fsVars

NextWorkspace ==
    \/ StartPass
    \/ SyncMetas
    \/ GarbageCollect
    \/ BuildJobs
    \/ FilterOwn
    \/ FilterWait
    \/ SortJobsDir
    \/ DispatchRecvErr
    \/ \E w \in DOMAIN wst : DispatchSend(w)
    \/ DispatchEnd
    \/ \E w \in DOMAIN wst : WorkerOwnJob(w)
    \/ \E w \in DOMAIN wst : WorkerSkip(w)
    \/ \E w \in DOMAIN wst : WorkerRunDir(w)
    \/ \E w \in DOMAIN wst : JobReturnsDir(w)
    \/ \E w \in DOMAIN wst : WorkerCounts(w)
    \/ \E w \in DOMAIN wst : WorkerSetRerun(w)
    \/ \E w \in DOMAIN wst : WorkerSendErr(w)
    \/ \E w \in DOMAIN wst : WorkerExit(w)
    \/ EndPassDir

SpecWorkspace == InitWorkspace /\ [][NextWorkspace]_vars

\* runCompactionJob panics in a worker goroutine. The goroutine defers only
\* wg.Done() and nothing on its stack calls recover, so the Go runtime ends
\* the process: the supervising goroutine and every worker are gone and
\* Compact never returns.
JobPanics(w) ==
    /\ cpc \in {"dispatch", "wait"}
    /\ wst[w] = "running"
    /\ cpc' = "crashed"
    /\ wst' = <<>>
    /\ wjob' = <<>>
    /\ wret' = <<>>
    /\ UNCHANGED <<concurrency, pass, jobs, jobIdx, errChan, jobErrs,
                   finishedAllJobs, maxCompactionTimeReached, timer,
                   workCtxCancelled, compactErr, waitIn, waitSkipped,
                   passErrs, passRerun, blocks, groupCompactionRunsStarted,
                   groupCompactionRunsCompleted, groupCompactionRunsFailed,
                   groupCompactions, jobLocal, verVars, callVars, ctxDone,
                   halfMarked, fsVars, auxVars>>

NextPanic == NextCompact \/ \E w \in DOMAIN wst : JobPanics(w)

SpecPanic == InitCompact /\ [][NextPanic]_vars

\* ------------------------------------------------------------------ Syncer

\* Goroutines calling the methods of one Syncer.
NumCallers == 2

\* Method calls that are followed.
MaxCalls == 3

Callers == 1..NumCallers

SyncerMethods == {"SyncMetas", "GarbageCollect", "Metas"}

\* The lists DuplicateIDs() may return.
DuplicateLists ==
    UNION {{s \in [1..n -> BlockIDs] :
               \A i, j \in 1..n : i # j => s[i] # s[j]} :
           n \in 0..MaxGroups}

InitSyncer ==
    /\ blocks = {}
    /\ mtx = 0
    /\ spc = [t \in Callers |-> "idle"]
    /\ duplicateIDs = [t \in Callers |-> <<>>]
    /\ garbageCollections = 0
    /\ garbageCollectionFailures = 0
    /\ gcCall = <<>>
    /\ sret = "unset"
    /\ calls = 0
    /\ ctxDone = FALSE
    /\ halfMarked = {}
    /\ concurrency = 1
    /\ timer = "off"
    /\ CompactIdle
    /\ FsIdle
    /\ AuxIdle
    /\ job = CHOOSE j \in Jobs : TRUE
    /\ JobIdle
    /\ VerifyIdle

\* The ctx handed to the methods is cancelled.
CtxCancel ==
    /\ ~ctxDone
    /\ ctxDone' = TRUE
    /\ UNCHANGED <<jobVars, verVars, supVars, syVars, halfMarked, fsVars,
                   auxVars>>

\* Mutant of Lock: the mutex is taken whether or not it is held.
Lock_NoCheck(t) == mtx' = t

\* s.mtx.Lock()
Lock(t) == mtx = 0 /\ mtx' = t

\* s.mtx.Unlock(), deferred in each method.
Unlock(t) == mtx' = 0

\* A goroutine calls a method of the Syncer and comes to its Lock().
SyncerCall(t) ==
    /\ spc[t] = "idle"
    /\ calls < MaxCalls
    /\ calls' = calls + 1
    /\ \E m \in SyncerMethods : spc' = [spc EXCEPT ![t] = m]
    /\ UNCHANGED <<blocks, mtx, duplicateIDs, garbageCollections,
                   garbageCollectionFailures, gcCall, sret, ctxDone,
                   halfMarked, marked, blocksMarkedForDeletion, jobQuiet,
                   verVars, supVars, fsVars, auxVars>>

\* SyncMetas: the mutex is taken.
SyncMetasLock(t) ==
    /\ spc[t] = "SyncMetas"
    /\ Lock(t)
    /\ spc' = [spc EXCEPT ![t] = "inSyncMetas"]
    /\ UNCHANGED <<blocks, duplicateIDs, garbageCollections,
                   garbageCollectionFailures, gcCall, sret, calls, ctxDone,
                   halfMarked, marked, blocksMarkedForDeletion, jobQuiet,
                   verVars, supVars, fsVars, auxVars>>

\* SyncMetas: the fetch, the replacement of the map unless it failed, and
\* the return.
SyncMetasBody(t) ==
    /\ spc[t] = "inSyncMetas"
    /\ \E metas \in SUBSET BlockIDs, err \in BOOLEAN :
          blocks' = syncedBlocks(metas, err)
    /\ Unlock(t)
    /\ spc' = [spc EXCEPT ![t] = "idle"]
    /\ UNCHANGED <<duplicateIDs, garbageCollections,
                   garbageCollectionFailures, gcCall, sret, calls, ctxDone,
                   halfMarked, marked, blocksMarkedForDeletion, jobQuiet,
                   verVars, supVars, fsVars, auxVars>>

\* GarbageCollect: the mutex is taken and DuplicateIDs() read. gcCall keeps
\* what the call found until it returns.
GarbageCollectLock(t) ==
    /\ spc[t] = "GarbageCollect"
    /\ Lock(t)
    /\ \E ids \in DuplicateLists :
          /\ duplicateIDs' = [duplicateIDs EXCEPT ![t] = ids]
          /\ gcCall' = [ids |-> ids, blocks |-> blocks, marked |-> marked,
                        collections |-> garbageCollections,
                        failures |-> garbageCollectionFailures]
    /\ spc' = [spc EXCEPT ![t] = "inGarbageCollect"]
    /\ UNCHANGED <<blocks, garbageCollections, garbageCollectionFailures,
                   sret, calls, ctxDone, halfMarked, marked,
                   blocksMarkedForDeletion, jobQuiet, verVars, supVars,
                   fsVars, auxVars>>

\* The return of GarbageCollect with err, the deferred Unlock included.
GarbageCollectReturn(t, err) ==
    /\ Unlock(t)
    /\ duplicateIDs' = [duplicateIDs EXCEPT ![t] = <<>>]
    /\ sret' = err
    /\ gcCall' = <<>>
    /\ spc' = [spc EXCEPT ![t] = "idle"]

\* GarbageCollect: the head of one iteration of the loop, which returns
\* ctx.Err() once ctx is done.
GarbageCollectCheck(t) ==
    /\ spc[t] = "inGarbageCollect"
    /\ duplicateIDs[t] # <<>>
    /\ IF ctxErr("ctx")
       THEN GarbageCollectReturn(t, "ctx")
       ELSE /\ spc' = [spc EXCEPT ![t] = "marking"]
            /\ UNCHANGED <<mtx, duplicateIDs, sret, gcCall>>
    /\ UNCHANGED <<blocks, garbageCollections, garbageCollectionFailures,
                   calls, ctxDone, halfMarked, marked,
                   blocksMarkedForDeletion, jobQuiet, verVars, supVars,
                   fsVars, auxVars>>

\* Mutant of GarbageCollectMark: a marked id stays in the map.
GarbageCollectMark_KeepInMap(t) ==
    /\ spc[t] = "marking"
    /\ LET id == Head(duplicateIDs[t])
       IN \E outcome \in MarkOutcomes(delCtx) :
             IF outcome = "ok"
             THEN /\ marked' = marked \cup {id}
                  /\ blocksMarkedForDeletion' =
                        IF id \in marked THEN blocksMarkedForDeletion
                        ELSE blocksMarkedForDeletion + 1
                  /\ duplicateIDs' = [duplicateIDs EXCEPT ![t] = Tail(@)]
                  /\ spc' = [spc EXCEPT ![t] = "inGarbageCollect"]
                  /\ UNCHANGED <<blocks, mtx, sret, gcCall,
                                 garbageCollectionFailures, halfMarked>>
             ELSE /\ garbageCollectionFailures' = garbageCollectionFailures + 1
                  /\ halfMarked' = IF outcome = "interrupted"
                                   THEN halfMarked \cup {id} ELSE halfMarked
                  /\ GarbageCollectReturn(t, "mark")
                  /\ UNCHANGED <<blocks, marked, blocksMarkedForDeletion>>
    /\ UNCHANGED <<garbageCollections, calls, ctxDone, jobQuiet, verVars,
                   supVars, fsVars, auxVars>>

\* Mutant of GarbageCollectMark: a failed marking is not counted.
GarbageCollectMark_FailureUncounted(t) ==
    /\ spc[t] = "marking"
    /\ LET id == Head(duplicateIDs[t])
       IN \E outcome \in MarkOutcomes(delCtx) :
             IF outcome = "ok"
             THEN /\ marked' = marked \cup {id}
                  /\ blocksMarkedForDeletion' =
                        IF id \in marked THEN blocksMarkedForDeletion
                        ELSE blocksMarkedForDeletion + 1
                  /\ blocks' = blocks \ {id}
                  /\ duplicateIDs' = [duplicateIDs EXCEPT ![t] = Tail(@)]
                  /\ spc' = [spc EXCEPT ![t] = "inGarbageCollect"]
                  /\ UNCHANGED <<mtx, sret, gcCall, garbageCollectionFailures,
                                 halfMarked>>
             ELSE /\ halfMarked' = IF outcome = "interrupted"
                                   THEN halfMarked \cup {id} ELSE halfMarked
                  /\ GarbageCollectReturn(t, "mark")
                  /\ UNCHANGED <<blocks, marked, blocksMarkedForDeletion,
                                 garbageCollectionFailures>>
    /\ UNCHANGED <<garbageCollections, calls, ctxDone, jobQuiet, verVars,
                   supVars, fsVars, auxVars>>

\* GarbageCollect: the rest of the iteration. block.MarkForDeletion runs
\* under delCtx and counts the marker unless one is there; then the id is
\* deleted from the map, or the failure is counted and the method returns.
GarbageCollectMark(t) ==
    /\ spc[t] = "marking"
    /\ LET id == Head(duplicateIDs[t])
       IN \E outcome \in MarkOutcomes(delCtx) :
             IF outcome = "ok"
             THEN /\ marked' = marked \cup {id}
                  /\ blocksMarkedForDeletion' =
                        IF id \in marked THEN blocksMarkedForDeletion
                        ELSE blocksMarkedForDeletion + 1
                  /\ blocks' = blocks \ {id}
                  /\ duplicateIDs' = [duplicateIDs EXCEPT ![t] = Tail(@)]
                  /\ spc' = [spc EXCEPT ![t] = "inGarbageCollect"]
                  /\ UNCHANGED <<mtx, sret, gcCall, garbageCollectionFailures,
                                 halfMarked>>
             ELSE /\ garbageCollectionFailures' = garbageCollectionFailures + 1
                  /\ halfMarked' = IF outcome = "interrupted"
                                   THEN halfMarked \cup {id} ELSE halfMarked
                  /\ GarbageCollectReturn(t, "mark")
                  /\ UNCHANGED <<blocks, marked, blocksMarkedForDeletion>>
    /\ UNCHANGED <<garbageCollections, calls, ctxDone, jobQuiet, verVars,
                   supVars, fsVars, auxVars>>

\* GarbageCollect: the loop is over, the collection is counted and the
\* method returns nil.
GarbageCollectDone(t) ==
    /\ spc[t] = "inGarbageCollect"
    /\ duplicateIDs[t] = <<>>
    /\ garbageCollections' = garbageCollections + 1
    /\ GarbageCollectReturn(t, "nil")
    /\ UNCHANGED <<blocks, garbageCollectionFailures, calls, ctxDone,
                   halfMarked, marked, blocksMarkedForDeletion, jobQuiet,
                   verVars, supVars, fsVars, auxVars>>

\* Metas: the mutex is taken.
MetasLock(t) ==
    /\ spc[t] = "Metas"
    /\ Lock(t)
    /\ spc' = [spc EXCEPT ![t] = "inMetas"]
    /\ UNCHANGED <<blocks, duplicateIDs, garbageCollections,
                   garbageCollectionFailures, gcCall, sret, calls, ctxDone,
                   halfMarked, marked, blocksMarkedForDeletion, jobQuiet,
                   verVars, supVars, fsVars, auxVars>>

\* Metas: s.blocks is returned.
MetasBody(t) ==
    /\ spc[t] = "inMetas"
    /\ Unlock(t)
    /\ spc' = [spc EXCEPT ![t] = "idle"]
    /\ UNCHANGED <<blocks, duplicateIDs, garbageCollections,
                   garbageCollectionFailures, gcCall, sret, calls, ctxDone,
                   halfMarked, marked, blocksMarkedForDeletion, jobQuiet,
                   verVars, supVars, fsVars, auxVars>>

NextSyncer ==
    \/ \E t \in DOMAIN spc : SyncerCall(t)
    \/ \E t \in DOMAIN spc : SyncMetasLock(t)
    \/ \E t \in DOMAIN spc : SyncMetasBody(t)
    \/ \E t \in DOMAIN spc : GarbageCollectLock(t)
    \/ \E t \in DOMAIN spc : GarbageCollectCheck(t)
    \/ \E t \in DOMAIN spc : GarbageCollectMark(t)
    \/ \E t \in DOMAIN spc : GarbageCollectDone(t)
    \/ \E t \in DOMAIN spc : MetasLock(t)
    \/ \E t \in DOMAIN spc : MetasBody(t)
    \/ CtxCancel

SpecSyncer == InitSyncer /\ [][NextSyncer]_vars

\* ---------------------------------------------------------------- shutdown

\* The caller's ctx may be cancelled at any moment of a compaction job (one
\* without splitting, which has no bearing on the marking), or at any moment
\* of a goroutine's calls to the Syncer.
InitShutdown ==
    \/ InitJob /\ ~job.UseSplitting
    \/ /\ blocks = {}
       /\ mtx = 0
       /\ spc = <<"idle">>
       /\ duplicateIDs = <<<<>>>>
       /\ garbageCollections = 0
       /\ garbageCollectionFailures = 0
       /\ gcCall = <<>>
       /\ sret = "unset"
       /\ calls = 0
       /\ ctxDone = FALSE
       /\ halfMarked = {}
       /\ concurrency = 1
       /\ timer = "off"
       /\ CompactIdle
       /\ FsIdle
       /\ AuxIdle
       /\ job = CHOOSE j \in Jobs : TRUE
       /\ pc = "none"
       /\ JobFresh
       /\ VerifyIdle

NextShutdown == NextJob \/ NextSyncer

SpecShutdown == InitShutdown /\ [][NextShutdown]_vars

\* --------------------------------------------------- NoCompactionMarkFilter

\* Object names under markers/ in one listing, at most.
MaxNames == 2

\* Filter calls that are followed.
MaxFilterCalls == 2

\* The objects under markers/: <<id, kind>> is the object named
\* markers/<id>-<kind>.
MarkerKinds == {"no-compact-mark.json", "deletion-mark.json"}

MarkerNames == {<<id, kind>> : id \in BlockIDs, kind \in MarkerKinds}

\* What bkt.Iter may list under markers/.
Listings == UNION {[1..n -> MarkerNames] : n \in 0..MaxNames}

\* block.IsNoCompactMarkFilename(path.Base(name)): the ULID of the name and
\* whether the name is that of a no-compact mark.
IsNoCompactMarkFilename(name) ==
    [blockID |-> name[1], ok |-> name[2] = "no-compact-mark.json"]

\* NewNoCompactionMarkFilter: the map is nil until a Filter call succeeds.
\* The bucket holds some objects under markers/.
InitNoCompact ==
    /\ removeNoCompactBlocks \in BOOLEAN
    /\ fNoCompactMarkedMap = {}
    /\ fMetas = {}
    /\ fMetas0 = {}
    /\ noCompactMarkedMap = {}
    /\ names \in Listings
    /\ nameIdx = 1
    /\ filterErr = "unset"
    /\ filterCalls = 0
    /\ TwiceIdle
    /\ MoreIdle
    /\ CoreIdle
    /\ job = CHOOSE j \in Jobs : TRUE
    /\ JobIdle
    /\ VerifyIdle

\* NoCompactMarkedBlocks()
NoCompactMarkedBlocks == fNoCompactMarkedMap

\* Filter is called with a map of metas: noCompactMarkedMap := make(...),
\* and Iter is started on markers/.
FilterCall ==
    /\ filterErr # "running"
    /\ filterCalls < MaxFilterCalls
    /\ filterCalls' = filterCalls + 1
    /\ \E m \in SUBSET BlockIDs :
          /\ fMetas' = m
          /\ fMetas0' = m
    /\ nameIdx' = 1
    /\ noCompactMarkedMap' = {}
    /\ filterErr' = "running"
    /\ UNCHANGED <<removeNoCompactBlocks, fNoCompactMarkedMap, names>>
    /\ UNCHANGED <<jobVars, verVars, supVars, syVars, ctxDone, halfMarked,
                   fsVars, twVars, moreVars>>

\* Mutant of IterName: a marked block is recorded whether or not it is in
\* metas.
IterName_NoExistsCheck ==
    /\ filterErr = "running"
    /\ nameIdx <= Len(names)
    /\ IF ctxErr("ctx")
       THEN /\ filterErr' = "list block no-compact marks"
            /\ UNCHANGED <<fMetas, noCompactMarkedMap, nameIdx>>
       ELSE /\ LET r == IsNoCompactMarkFilename(names[nameIdx])
               IN IF r.ok
                  THEN /\ noCompactMarkedMap' =
                             noCompactMarkedMap \cup {r.blockID}
                       /\ fMetas' = IF removeNoCompactBlocks
                                    THEN fMetas \ {r.blockID}
                                    ELSE fMetas
                  ELSE UNCHANGED <<fMetas, noCompactMarkedMap>>
            /\ nameIdx' = nameIdx + 1
            /\ UNCHANGED filterErr
    /\ UNCHANGED <<fMetas0, removeNoCompactBlocks, fNoCompactMarkedMap, names,
                   filterCalls>>
    /\ UNCHANGED <<jobVars, verVars, supVars, syVars, ctxDone, halfMarked,
                   fsVars, twVars, moreVars>>

\* Iter passes the next name to the function of Filter, which returns
\* ctx.Err() if ctx is done, and else records the block of a no-compact mark
\* if it is in metas and deletes it from metas if removeNoCompactBlocks is
\* set. An error ends Iter and Filter, which wraps it.
IterName ==
    /\ filterErr = "running"
    /\ nameIdx <= Len(names)
    /\ IF ctxErr("ctx")
       THEN /\ filterErr' = "list block no-compact marks"
            /\ UNCHANGED <<fMetas, noCompactMarkedMap, nameIdx>>
       ELSE /\ LET r == IsNoCompactMarkFilename(names[nameIdx])
               IN IF r.ok /\ r.blockID \in fMetas
                  THEN /\ noCompactMarkedMap' =
                             noCompactMarkedMap \cup {r.blockID}
                       /\ fMetas' = IF removeNoCompactBlocks
                                    THEN fMetas \ {r.blockID}
                                    ELSE fMetas
                  ELSE UNCHANGED <<fMetas, noCompactMarkedMap>>
            /\ nameIdx' = nameIdx + 1
            /\ UNCHANGED filterErr
    /\ UNCHANGED <<fMetas0, removeNoCompactBlocks, fNoCompactMarkedMap, names,
                   filterCalls>>
    /\ UNCHANGED <<jobVars, verVars, supVars, syVars, ctxDone, halfMarked,
                   fsVars, twVars, moreVars>>

\* The listing itself fails: Iter returns an error, which Filter wraps.
IterFails ==
    /\ filterErr = "running"
    /\ filterErr' = "list block no-compact marks"
    /\ UNCHANGED <<fMetas, fMetas0, removeNoCompactBlocks, fNoCompactMarkedMap,
                   noCompactMarkedMap, names, nameIdx, filterCalls>>
    /\ UNCHANGED <<jobVars, verVars, supVars, syVars, ctxDone, halfMarked,
                   fsVars, twVars, moreVars>>

\* Mutant of FilterReturns: the ids found are added to the map of the filter.
FilterReturns_Merge ==
    /\ filterErr = "running"
    /\ nameIdx > Len(names)
    /\ fNoCompactMarkedMap' = fNoCompactMarkedMap \cup noCompactMarkedMap
    /\ filterErr' = "nil"
    /\ UNCHANGED <<fMetas, fMetas0, removeNoCompactBlocks, noCompactMarkedMap,
                   names, nameIdx, filterCalls>>
    /\ UNCHANGED <<jobVars, verVars, supVars, syVars, ctxDone, halfMarked,
                   fsVars, twVars, moreVars>>

\* Iter has passed every name: f.noCompactMarkedMap = noCompactMarkedMap and
\* Filter returns nil.
FilterReturns ==
    /\ filterErr = "running"
    /\ nameIdx > Len(names)
    /\ fNoCompactMarkedMap' = noCompactMarkedMap
    /\ filterErr' = "nil"
    /\ UNCHANGED <<fMetas, fMetas0, removeNoCompactBlocks, noCompactMarkedMap,
                   names, nameIdx, filterCalls>>
    /\ UNCHANGED <<jobVars, verVars, supVars, syVars, ctxDone, halfMarked,
                   fsVars, twVars, moreVars>>

NextNoCompact ==
    \/ FilterCall
    \/ IterName
    \/ IterFails
    \/ FilterReturns
    \/ CtxCancel

SpecNoCompact == InitNoCompact /\ [][NextNoCompact]_vars

\* ---------------------------------------------------- Compact, called twice

\* A deletion mark has been written for the block.
MarkedBlock == [kind |-> "marked", work |-> 0]

\* What the one block of a group can be to the compactor when Compact is
\* first called: not in the bucket; covered by another block, so that the
\* deduplicate filter reports it; of a job another compactor owns; of a job
\* whose one merge gives an empty block and whose block holds no samples; of a job the planner will plan work
\* merges for, one in a pass.
BlockStates ==
    {[kind |-> "absent", work |-> 0],
     [kind |-> "covered", work |-> 0],
     [kind |-> "foreign", work |-> 1],
     [kind |-> "hollow", work |-> 1]}
       \cup {[kind |-> "plain", work |-> n] : n \in 0..MaxPasses}

\* The metas the fetcher returns: of the blocks without deletion mark that
\* the deduplicate filter leaves.
FetchedMetas(b) ==
    {k \in DOMAIN b : b[k].kind \in {"foreign", "hollow", "barren", "plain"}}

\* The bucket once GarbageCollect has marked what DuplicateIDs() returned.
DuplicatesMarked(b) ==
    [k \in DOMAIN b |-> IF b[k].kind = "covered" THEN MarkedBlock ELSE b[k]]

\* c.ownJob(job), the same at every call.
ownJob(b, k) == IF b[k].kind = "foreign" THEN "false" ELSE "true"

\* What runCompactionJob returns for the job of group k when nothing fails:
\* nothing to do for an empty plan, and else a rerun, with the new block
\* unless it is empty.
RunOutcome(b, k) ==
    IF b[k].work = 0
    THEN [shouldRerun |-> FALSE, compIDs |-> <<>>, rerr |-> "nil"]
    ELSE IF b[k].kind \in {"hollow", "barren"}
         THEN [shouldRerun |-> TRUE, compIDs |-> <<>>, rerr |-> "nil"]
         ELSE [shouldRerun |-> TRUE, compIDs |-> <<OutULID(1)>>,
               rerr |-> "nil"]

\* The bucket after that run: the sources of an empty result are marked for
\* deletion if they hold no samples, and a merge leaves the planner one merge
\* less to plan.
AfterRun(b, k) ==
    IF b[k].work = 0
    THEN b
    ELSE IF b[k].kind = "hollow"
         THEN [b EXCEPT ![k] = MarkedBlock]
         ELSE IF b[k].kind = "barren"
              THEN b
              ELSE [b EXCEPT ![k].work = @ - 1]

\* Compact is called with no time budget on a bucket of some blocks.
InitTwice ==
    /\ concurrency = MaxConcurrency
    /\ timer = "off"
    /\ CompactIdle
    /\ SyncerIdle
    /\ ctxDone = FALSE
    /\ halfMarked = {}
    /\ FsIdle
    /\ NoCompactIdle
    /\ MoreIdle
    /\ bkt \in [BlockIDs -> BlockStates]
    /\ call = 1
    /\ passBkt = <<>>
    /\ job = CHOOSE j \in Jobs : TRUE
    /\ JobIdle
    /\ VerifyIdle

\* Compact has returned nil and is called again at once.
CompactAgain ==
    /\ cpc = "returned"
    /\ compactErr = "nil"
    /\ call = 1
    /\ call' = 2
    /\ cpc' = "loop"
    /\ pass' = 0
    /\ compactErr' = "unset"
    /\ workCtxCancelled' = FALSE
    /\ UNCHANGED <<ncVars, bkt, passBkt, moreVars>>
    /\ UNCHANGED <<concurrency, jobs, jobIdx, errChan, jobErrs,
                   finishedAllJobs, maxCompactionTimeReached, timer, wst,
                   wjob, wret, waitIn, waitSkipped, passErrs, passRerun,
                   blocks, groupCompactionRunsStarted,
                   groupCompactionRunsCompleted, groupCompactionRunsFailed,
                   groupCompactions, jobLocal, verVars, callVars, ctxDone,
                   halfMarked, fsVars>>

\* SyncMetas succeeds on the bucket as it is.
SyncMetasBkt ==
    /\ SyncMetas
    /\ cpc' = "gc"
    /\ blocks' = FetchedMetas(bkt)

\* GarbageCollect succeeds: the duplicates are marked in the bucket; the
\* filter had taken them out of the map.
GarbageCollectBkt ==
    /\ GarbageCollectStep
    /\ cpc' = "group"
    /\ blocks' = blocks
    /\ bkt' = DuplicatesMarked(bkt)
    /\ UNCHANGED <<ncVars, call, passBkt, moreVars>>

\* Groups succeeds.
BuildJobsBkt == BuildJobs /\ cpc' = "filterOwn"

\* filterOwnJobs with the ownership of the bucket.
FilterOwnBkt ==
    /\ FilterOwn
    /\ cpc' = "filterWait"
    /\ jobs' = filterOwnJobs(jobs, [k \in Range(jobs) |-> ownJob(bkt, k)]).jobs

\* filterJobsByWaitPeriod, the wait period of every job having elapsed.
FilterWaitBkt ==
    /\ FilterWait
    /\ \A k \in Range(jobs) : waitIn'.res[k] = "elapsed"

\* The worker asks ownJob, which answers as before.
WorkerOwnJobBkt(w) ==
    /\ WorkerOwnJob(w)
    /\ wst'[w] = IF ownJob(bkt, wjob[w]) = "true" THEN "owned" ELSE "notOwned"

\* runCompactionJob returns what the bucket makes it return; in the first
\* call a job with a plan may fail instead, leaving the bucket as it was.
JobReturnsBkt(w) ==
    \/ /\ wst[w] = "running"
       /\ JobReturnsWith(w, RunOutcome(bkt, wjob[w]))
       /\ bkt' = AfterRun(bkt, wjob[w])
       /\ UNCHANGED <<fsVars, ncVars, call, passBkt, moreVars>>
    \/ /\ wst[w] = "running"
       /\ call = 1
       /\ bkt[wjob[w]].work > 0
       /\ JobReturnsWith(w, [shouldRerun |-> FALSE, compIDs |-> <<>>,
                             rerr |-> "error"])
       /\ UNCHANGED <<fsVars, auxVars>>

NextTwice ==
    \/ StartPass
    \/ SyncMetasBkt
    \/ GarbageCollectBkt
    \/ BuildJobsBkt
    \/ FilterOwnBkt
    \/ FilterWaitBkt
    \/ SortJobs
    \/ DispatchRecvErr
    \/ \E w \in DOMAIN wst : DispatchSend(w)
    \/ DispatchEnd
    \/ \E w \in DOMAIN wst : WorkerOwnJobBkt(w)
    \/ \E w \in DOMAIN wst : WorkerRun(w)
    \/ \E w \in DOMAIN wst : JobReturnsBkt(w)
    \/ \E w \in DOMAIN wst : WorkerCounts(w)
    \/ \E w \in DOMAIN wst : WorkerSetRerun(w)
    \/ \E w \in DOMAIN wst : WorkerSendErr(w)
    \/ \E w \in DOMAIN wst : WorkerExit(w)
    \/ EndPass
    \/ CompactAgain

SpecTwice == InitTwice /\ [][NextTwice]_vars

\* ------------------------------------------ Compact with no time budget
\* The blocks of BlockStates, and the one block of a job whose merge gives
\* an empty block although the block holds samples: the empty result marks
\* no source, as only sources without samples are marked.
LoopBlockStates == BlockStates \cup {[kind |-> "barren", work |-> 1]}

\* Compact is called once, with maxCompactionTime = 0, on a bucket that
\* nobody else writes to.
InitLoop ==
    /\ concurrency = MaxConcurrency
    /\ timer = "off"
    /\ CompactIdle
    /\ SyncerIdle
    /\ ctxDone = FALSE
    /\ halfMarked = {}
    /\ FsIdle
    /\ NoCompactIdle
    /\ MoreIdle
    /\ bkt \in [BlockIDs -> LoopBlockStates]
    /\ call = 1
    /\ passBkt = <<>>
    /\ job = CHOOSE j \in Jobs : TRUE
    /\ JobIdle
    /\ VerifyIdle

\* GarbageCollectBkt, the bucket the pass found being kept: nothing writes
\* to the bucket between the head of the loop and GarbageCollect.
GarbageCollectRec ==
    /\ GarbageCollectStep
    /\ cpc' = "group"
    /\ blocks' = blocks
    /\ bkt' = DuplicatesMarked(bkt)
    /\ passBkt' = bkt
    /\ UNCHANGED <<ncVars, call, moreVars>>

NextLoop ==
    \/ StartPass
    \/ SyncMetasBkt
    \/ GarbageCollectRec
    \/ BuildJobsBkt
    \/ FilterOwnBkt
    \/ FilterWaitBkt
    \/ SortJobs
    \/ DispatchRecvErr
    \/ \E w \in DOMAIN wst : DispatchSend(w)
    \/ DispatchEnd
    \/ \E w \in DOMAIN wst : WorkerOwnJobBkt(w)
    \/ \E w \in DOMAIN wst : WorkerRun(w)
    \/ \E w \in DOMAIN wst : JobReturnsBkt(w)
    \/ \E w \in DOMAIN wst : WorkerCounts(w)
    \/ \E w \in DOMAIN wst : WorkerSetRerun(w)
    \/ \E w \in DOMAIN wst : WorkerSendErr(w)
    \/ \E w \in DOMAIN wst : WorkerExit(w)
    \/ EndPass

SpecLoop == InitLoop /\ [][NextLoop]_vars

\* ------------------------------------------- Compact, ownership recorded

\* Compact is called with no time budget and one worker.
InitOwn ==
    /\ concurrency = 1
    /\ timer = "off"
    /\ CompactIdle
    /\ SyncerIdle
    /\ ctxDone = FALSE
    /\ halfMarked = {}
    /\ FsIdle
    /\ AuxIdle
    /\ job = CHOOSE j \in Jobs : TRUE
    /\ JobIdle
    /\ VerifyIdle

\* filterOwnJobs, the call being recorded: the pass, the jobs passed in, the
\* answers of ownJob and the runs started so far.
FilterOwnRec ==
    /\ \E own \in [Range(jobs) -> OwnOutcomes] :
          /\ FilterOwnWith(own)
          /\ ownIn' = [pass |-> pass, jobs |-> jobs, res |-> own,
                       started |-> groupCompactionRunsStarted]
    /\ UNCHANGED <<ncVars, twVars, runCount, lastRun, tmVars, quVars>>

NextOwn ==
    \/ StartPass
    \/ SyncMetas
    \/ GarbageCollect
    \/ BuildJobs
    \/ FilterOwnRec
    \/ FilterWait
    \/ SortJobs
    \/ DispatchRecvErr
    \/ \E w \in DOMAIN wst : DispatchSend(w)
    \/ DispatchEnd
    \/ \E w \in DOMAIN wst : WorkerOwnJob(w)
    \/ \E w \in DOMAIN wst : WorkerSkip(w)
    \/ \E w \in DOMAIN wst : WorkerRun(w)
    \/ \E w \in DOMAIN wst : JobReturns(w)
    \/ \E w \in DOMAIN wst : WorkerCounts(w)
    \/ \E w \in DOMAIN wst : WorkerSetRerun(w)
    \/ \E w \in DOMAIN wst : WorkerSendErr(w)
    \/ \E w \in DOMAIN wst : WorkerExit(w)
    \/ EndPass

SpecOwn == InitOwn /\ [][NextOwn]_vars

\* ------------------------------------------------- minTime, maxTime of a plan

\* The greatest number of milliseconds whose nanoseconds fit an int64:
\* (2^63 - 1) / 10^6, rounded down.
MaxExactMillis == Dec(<<9, 2, 2, 3, 3, 7, 2, 0, 3, 6, 8, 5, 4>>)

\* MinTime and MaxTime of the blocks of a plan, in milliseconds: about zero
\* and about the two ends of the range whose nanoseconds fit an int64.
MilliTimes ==
    {Neg64(AddFrom(MaxExactMillis, 1, 1)), Neg64(MaxExactMillis), Int64(0),
     MaxExactMillis, AddFrom(MaxExactMillis, 1, 1)}

TimedMetas ==
    {m \in [MinTime : MilliTimes, MaxTime : MilliTimes, wide : {TRUE}] :
        ~Less64(m.MaxTime, m.MinTime)}

\* The plans of one to MaxBlocks blocks.
TimedPlans == UNION {[1..n -> TimedMetas] : n \in 1..MaxBlocks}

InitTime ==
    /\ tPlan \in TimedPlans
    /\ tRes = NoRange
    /\ OwnIdle
    /\ QueueIdle
    /\ NoCompactIdle
    /\ TwiceIdle
    /\ CoreIdle
    /\ job = CHOOSE j \in Jobs : TRUE
    /\ JobIdle
    /\ VerifyIdle

\* runCompactionJob computes toCompactMinTime and toCompactMaxTime and
\* passes their UnixMilli() to verifyCompactedBlocksTimeRanges.
PlanTimeRange ==
    /\ ~tRes.set
    /\ tRes' = [set |-> TRUE,
                srcMin |-> UnixMilli(minTime(tPlan)),
                srcMax |-> UnixMilli(maxTime(tPlan))]
    /\ UNCHANGED <<tPlan, jobVars, verVars, supVars, syVars, ctxDone,
                   halfMarked, fsVars, ncVars, twVars, owVars, quVars>>

NextTime == PlanTimeRange

SpecTime == InitTime /\ [][NextTime]_vars

\* ---------------------------------------------------------- IngestionQueue

\* Greatest capacity of the queue channel, greatest number of workers, and
\* Put calls that are followed.
MaxQueueSize == 2

MaxQueueWorkers == 2

MaxPuts == 3

\* What Ingest may do with an input.
IngestOutcomes == {"nil", "error", "panic"}

\* NewIngestionQueue: the channels are made and the worker goroutines
\* started; it returns before any of them has reached its select.
InitQueue ==
    /\ queueSize \in 0..MaxQueueSize
    /\ queueWorkers \in 1..MaxQueueWorkers
    /\ queue = <<>>
    /\ stop = "open"
    /\ stopPc = "none"
    /\ qw = [w \in 1..queueWorkers |-> "start"]
    /\ recvq = <<>>
    /\ qin = [w \in 1..queueWorkers |-> 0]
    /\ discardedTotal = 0
    /\ puts = 0
    /\ lastPut = NoPut
    /\ enqueued = {}
    /\ ingested = {}
    /\ lastIngest = NoIngest
    /\ OwnIdle
    /\ TimeIdle
    /\ NoCompactIdle
    /\ TwiceIdle
    /\ CoreIdle
    /\ job = CHOOSE j \in Jobs : TRUE
    /\ JobIdle
    /\ VerifyIdle

\* The workers parked in their select, to which a send on the queue channel
\* hands its input. A worker that has not reached its select, or that
\* close(stop) has woken, is none.
Receivers == {recvq[i] : i \in DOMAIN recvq}

\* The cases of the select of Put that can proceed, done telling whether
\* ctx is done: a send can proceed when a worker is parked to receive or
\* the buffer has room.
PutReady(done) ==
    (IF done THEN {"ctx"} ELSE {})
      \cup (IF stop = "closed" THEN {"stop"} ELSE {})
      \cup (IF Receivers # {} \/ Len(queue) < queueSize
            THEN {"send"} ELSE {})

\* Mutant of PutCases: the select has no default case.
PutCases_NoDefault(done) == PutReady(done)

\* The case the select of Put may take: any that can proceed, and the
\* default case when none can.
PutCases(done) == IF PutReady(done) = {} THEN {"default"} ELSE PutReady(done)

\* Put(ctx, input), the n-th call putting input n; done tells whether ctx
\* is done. A send hands the input to the worker that parked first, or
\* with none parked puts it in the buffer.
PutWith(done) ==
    /\ puts < MaxPuts
    /\ puts' = puts + 1
    /\ \E c \in PutCases(done) :
             IF c = "send"
             THEN /\ IF recvq # <<>>
                     THEN /\ qw' = [qw EXCEPT ![Head(recvq)] = "got"]
                          /\ qin' = [qin EXCEPT ![Head(recvq)] = puts + 1]
                          /\ recvq' = Tail(recvq)
                          /\ UNCHANGED queue
                     ELSE /\ queue' = Append(queue, puts + 1)
                          /\ UNCHANGED <<qw, qin, recvq>>
                  /\ enqueued' = enqueued \cup {puts + 1}
                  /\ lastPut' = [input |-> puts + 1, did |-> "queued",
                                 err |-> "nil"]
                  /\ UNCHANGED discardedTotal
             ELSE /\ discardedTotal' = discardedTotal + 1
                  /\ lastPut' = [input |-> puts + 1,
                                 did |-> "discarded", err |-> "nil"]
                  /\ UNCHANGED <<queue, enqueued, qw, qin, recvq>>
    /\ UNCHANGED <<queueSize, queueWorkers, stop, stopPc, ingested,
                   lastIngest>>
    /\ UNCHANGED <<jobVars, verVars, supVars, syVars, ctxDone, halfMarked,
                   fsVars, ncVars, twVars, owVars, tmVars>>

\* Put, whatever the state of its ctx.
Put == \E done \in BOOLEAN : PutWith(done)

\* runQueueWorker reaches its select and no case can proceed: the goroutine
\* parks on both channels.
QueueWorkerPark(w) ==
    /\ w \in DOMAIN qw
    /\ qw[w] = "start"
    /\ queue = <<>>
    /\ stop = "open"
    /\ qw' = [qw EXCEPT ![w] = "select"]
    /\ recvq' = Append(recvq, w)
    /\ UNCHANGED <<queueSize, queueWorkers, queue, stop, stopPc, qin,
                   discardedTotal, puts, lastPut, enqueued, ingested,
                   lastIngest>>
    /\ UNCHANGED <<jobVars, verVars, supVars, syVars, ctxDone, halfMarked,
                   fsVars, ncVars, twVars, owVars, tmVars>>

\* runQueueWorker reaches its select with an input in the buffer and takes
\* case input, ok := <-s.queue; the channel is never closed.
QueueWorkerRecv(w) ==
    /\ w \in DOMAIN qw
    /\ qw[w] = "start"
    /\ queue # <<>>
    /\ qw' = [qw EXCEPT ![w] = "got"]
    /\ qin' = [qin EXCEPT ![w] = Head(queue)]
    /\ queue' = Tail(queue)
    /\ UNCHANGED <<queueSize, queueWorkers, stop, stopPc, recvq,
                   discardedTotal, puts, lastPut, enqueued, ingested,
                   lastIngest>>
    /\ UNCHANGED <<jobVars, verVars, supVars, syVars, ctxDone, halfMarked,
                   fsVars, ncVars, twVars, owVars, tmVars>>

\* Mutant of safePut: the deferred function does not recover.
safePut_NoRecover(o) == o

\* safePut: what Ingest returns, a panic being recovered into an error.
safePut(o) == IF o = "panic" THEN "panic recovered" ELSE o

\* Mutant of QueueWorkerIngest: the worker returns after an error.
QueueWorkerIngest_ReturnOnError(w) ==
    /\ w \in DOMAIN qw
    /\ qw[w] = "got"
    /\ ingested' = ingested \cup {qin[w]}
    /\ \E o \in IngestOutcomes :
          LET err == safePut(o)
          IN  /\ qw' = [qw EXCEPT ![w] = IF err = "nil" THEN "start"
                                         ELSE "exited"]
              /\ lastIngest' = [input |-> qin[w], err |-> err]
    /\ qin' = [qin EXCEPT ![w] = 0]
    /\ UNCHANGED <<queueSize, queueWorkers, queue, stop, stopPc, recvq,
                   discardedTotal, puts, lastPut, enqueued>>
    /\ UNCHANGED <<jobVars, verVars, supVars, syVars, ctxDone, halfMarked,
                   fsVars, ncVars, twVars, owVars, tmVars>>

\* The worker calls safePut(input): Ingest is called and returns or panics;
\* an error of safePut is logged and the worker goes round its loop. A panic
\* that is not recovered ends the goroutine, and the process with it.
QueueWorkerIngest(w) ==
    /\ w \in DOMAIN qw
    /\ qw[w] = "got"
    /\ ingested' = ingested \cup {qin[w]}
    /\ \E o \in IngestOutcomes :
          LET err == safePut(o)
          IN  /\ qw' = [qw EXCEPT ![w] = IF err = "panic" THEN "crashed"
                                         ELSE "start"]
              /\ lastIngest' = [input |-> qin[w], err |-> err]
    /\ qin' = [qin EXCEPT ![w] = 0]
    /\ UNCHANGED <<queueSize, queueWorkers, queue, stop, stopPc, recvq,
                   discardedTotal, puts, lastPut, enqueued>>
    /\ UNCHANGED <<jobVars, verVars, supVars, syVars, ctxDone, halfMarked,
                   fsVars, ncVars, twVars, owVars, tmVars>>

\* runQueueWorker, case <-s.stop: return; the deferred wg.Done() runs. The
\* worker reached its select with stop closed, or close(stop) woke it.
QueueWorkerStop(w) ==
    /\ w \in DOMAIN qw
    /\ \/ qw[w] = "start" /\ stop = "closed"
       \/ qw[w] = "woken"
    /\ qw' = [qw EXCEPT ![w] = "exited"]
    /\ UNCHANGED <<queueSize, queueWorkers, queue, stop, stopPc, recvq, qin,
                   discardedTotal, puts, lastPut, enqueued, ingested,
                   lastIngest>>
    /\ UNCHANGED <<jobVars, verVars, supVars, syVars, ctxDone, halfMarked,
                   fsVars, ncVars, twVars, owVars, tmVars>>

\* Stop: close(s.stop), which wakes every parked worker with the stop case,
\* so that none of them receives any more; then s.wg.Wait().
StopCall ==
    /\ stopPc = "none"
    /\ stop' = "closed"
    /\ stopPc' = "waiting"
    /\ qw' = [w \in DOMAIN qw |->
                IF qw[w] = "select" THEN "woken" ELSE qw[w]]
    /\ recvq' = <<>>
    /\ UNCHANGED <<queueSize, queueWorkers, queue, qin, discardedTotal,
                   puts, lastPut, enqueued, ingested, lastIngest>>
    /\ UNCHANGED <<jobVars, verVars, supVars, syVars, ctxDone, halfMarked,
                   fsVars, ncVars, twVars, owVars, tmVars>>

\* s.wg.Wait() returns once every worker has returned.
StopReturn ==
    /\ stopPc = "waiting"
    /\ \A w \in DOMAIN qw : qw[w] = "exited"
    /\ stopPc' = "returned"
    /\ UNCHANGED <<queueSize, queueWorkers, queue, stop, qw, recvq, qin,
                   discardedTotal, puts, lastPut, enqueued, ingested,
                   lastIngest>>
    /\ UNCHANGED <<jobVars, verVars, supVars, syVars, ctxDone, halfMarked,
                   fsVars, ncVars, twVars, owVars, tmVars>>

NextQueue ==
    \/ Put
    \/ \E w \in 1..MaxQueueWorkers : QueueWorkerPark(w)
    \/ \E w \in 1..MaxQueueWorkers : QueueWorkerRecv(w)
    \/ \E w \in 1..MaxQueueWorkers : QueueWorkerIngest(w)
    \/ \E w \in 1..MaxQueueWorkers : QueueWorkerStop(w)
    \/ StopCall
    \/ StopReturn

SpecQueue == InitQueue /\ [][NextQueue]_vars

\* A step of the goroutine of worker w.
runQueueWorker(w) ==
    \/ QueueWorkerPark(w)
    \/ QueueWorkerRecv(w)
    \/ QueueWorkerIngest(w)
    \/ QueueWorkerStop(w)

\* The scheduler lets every worker goroutine that can take a step take one,
\* and every Ingest call returns.
QueueFairness == \A w \in 1..MaxQueueWorkers : WF_vars(runQueueWorker(w))

SpecQueueFair == SpecQueue /\ QueueFairness

\* ------------------------------------------------------------- properties

SetMin(S) == CHOOSE x \in S : \A y \in S : x <= y
SetMax(S) == CHOOSE x \in S : \A y \in S : x >= y

\* The blocks of the plan, their time span and those without samples.
PlanIDs == {toCompact[i].ULID : i \in 1..Len(toCompact)}
PlanMinTime == SetMin({toCompact[i].MinTime : i \in 1..Len(toCompact)})
PlanMaxTime == SetMax({toCompact[i].MaxTime : i \in 1..Len(toCompact)})
ZeroSampleIDs ==
    {toCompact[i].ULID : i \in {k \in 1..Len(toCompact) : toCompact[k].NumSamples = 0}}
PlanPrefixIDs(k) == {toCompact[i].ULID : i \in 1..k}

\* The non-empty outputs of compaction.
NonEmptyOut == {m \in Range(out) : m.ULID # ZeroULID}
NonEmptyOutIDs == {m.ULID : m \in NonEmptyOut}
OutsideSources(m) == m.MinTime < PlanMinTime \/ m.MaxTime > PlanMaxTime

\* runCompactionJob has returned (its deferred calls included).
Returned == pc \in {"returned", "done"}

\* The errors runCompactionJob returns before it reaches the marking loop.
PreMarkErrors ==
    {"create compaction job dir", "plan compaction", "download block",
     "create local bucket", "open block", "compact blocks", "upload"}

\* C1: when compaction yields a non-empty output, a source block is marked
\* only in the marking stage, with every non-empty output uploaded, the plan
\* opened and verification done; and the stages are entered in the order
\* plan, download, open, compact, verify, upload, mark.
C1_MarkSourcesLast ==
    [][/\ (marked' # marked /\ hasNonZeroULIDs(compIDs)) =>
              /\ pc = "mark"
              /\ NonEmptyOutIDs \subseteq uploaded
              /\ verifyErr # "unset"
              /\ src = 1..Len(toCompact)
       /\ (pc' = "mark" /\ pc # "mark") =>
              (pc = "upload" /\ NonEmptyOutIDs \subseteq uploaded)
       /\ (pc' = "upload" /\ pc # "upload") => pc = "verify"
       /\ (pc' = "verify" /\ pc # "verify") => pc = "compact"
       /\ (pc' = "compact" /\ pc # "compact") =>
              (pc = "open" /\ src = 1..Len(toCompact))
       /\ (pc' = "open" /\ pc # "open") => pc = "localBucket"
       /\ (pc' = "localBucket" /\ pc # "localBucket") =>
              (pc = "download" /\ PlanIDs \subseteq disk)
       /\ (pc' = "download" /\ pc # "download") => pc = "plan"]_vars

\* A source is marked after two outputs were uploaded.
C1_Witness ==
    /\ pc = "mark"
    /\ marked # {}
    /\ Cardinality(NonEmptyOutIDs) = 2
    /\ NonEmptyOutIDs \subseteq uploaded

\* C2 as stated: a nil error after a non-empty plan means every planned block
\* is marked for deletion.
C2_NilErrorMarksAll ==
    (Returned /\ ret.rerr = "nil" /\ toCompact # <<>>) => PlanIDs \subseteq marked

\* C2 amended: a nil error after compaction produced a non-empty output means
\* every planned block is marked for deletion.
C2_SuccessMarksAll ==
    (Returned /\ ret.rerr = "nil" /\ hasNonZeroULIDs(compIDs)) =>
        (PlanIDs \subseteq marked /\ PlanIDs \subseteq deleteCalls)

C2_Witness ==
    /\ Returned
    /\ ret.rerr = "nil"
    /\ hasNonZeroULIDs(compIDs)
    /\ Len(toCompact) = 2
    /\ PlanIDs \subseteq marked

\* C3 as stated: when the job has returned its planned blocks are all marked
\* or all unmarked.
C3_AllOrNone ==
    Returned => (PlanIDs \subseteq marked \/ PlanIDs \cap marked = {})

\* C3 amended: when the job has returned, the planned blocks it marked are all
\* of them after a nil error with a non-empty output, none after an abort
\* before the marking loop or an empty plan, a proper prefix of the plan when a
\* deleteBlock of the marking loop failed, and some of the blocks without
\* samples when no output had samples.
C3_MarkedByOutcome ==
    Returned =>
        /\ marked \subseteq PlanIDs
        /\ (ret.rerr = "nil" /\ hasNonZeroULIDs(compIDs)) => marked = PlanIDs
        /\ (ret.rerr \in PreMarkErrors \/ toCompact = <<>>) => marked = {}
        /\ ret.rerr = "mark old block for deletion from bucket" =>
              \E k \in 0..(Len(toCompact) - 1) : marked = PlanPrefixIDs(k)
        /\ (ret.rerr = "nil" /\ out # <<>> /\ ~hasNonZeroULIDs(compIDs)) =>
              marked \subseteq ZeroSampleIDs

\* The marking loop failed on its second block: one block marked, one not.
C3_Witness ==
    /\ Returned
    /\ ret.rerr = "mark old block for deletion from bucket"
    /\ Cardinality(marked) = 1
    /\ Len(toCompact) = 2

\* C4: after a job without error every uploaded output lies within the time
\* span of the planned blocks.
C4_UploadedWithinSources ==
    (Returned /\ ret.rerr = "nil") =>
        \A m \in NonEmptyOut : m.ULID \in uploaded => ~OutsideSources(m)

\* C5: a non-empty output outside the time span of the planned blocks makes
\* the job fail with nothing uploaded, no source marked or counted as marked,
\* and groupCompactionRunsFailed incremented once.
C5_BoundViolationAborts ==
    (pc = "done" /\ \E m \in NonEmptyOut : OutsideSources(m)) =>
        /\ ret.rerr # "nil"
        /\ uploaded = {}
        /\ marked = {}
        /\ blocksMarkedForDeletion = 0
        /\ groupCompactionRunsFailed = 1

\* The hypothesis of C6 over the outputs compaction returned: every
\* non-empty output lies within the time span of the sources, and none
\* starts at its start or none ends at its end.
MinCovered == \E m \in NonEmptyOut : m.MinTime = PlanMinTime
MaxCovered == \E m \in NonEmptyOut : m.MaxTime = PlanMaxTime
CoverageMissed ==
    /\ out # <<>>
    /\ \A m \in NonEmptyOut : ~OutsideSources(m)
    /\ ~MinCovered \/ ~MaxCovered

\* The same with at least one non-empty output.
CoverageWarning == CoverageMissed /\ NonEmptyOut # {}

\* What C6 promises of a job that has returned: the warning was counted
\* once, and the job failed only if an upload or a deleteBlock failed and
\* otherwise uploaded all outputs and marked all sources.
WarnedAndProceeded ==
    /\ compactionBlocksVerificationFailed = 1
    /\ ret.rerr \in {"nil", "upload", "mark old block for deletion from bucket"}
    /\ ret.rerr = "nil" =>
          (NonEmptyOutIDs \subseteq uploaded /\ PlanIDs \subseteq marked)
    /\ ret.rerr = "upload" => ~(NonEmptyOutIDs \subseteq uploaded)

\* C6 as stated: a job whose outputs lie within the time span of the sources
\* and miss its start or its end has, when it returns, counted one
\* verification failure and gone on to upload and mark.
C6_CoverageMissedProceeds == (Returned /\ CoverageMissed) => WarnedAndProceeded

\* C6, amended: with at least one non-empty output, outputs within the time
\* span of the sources that miss its start or its end are counted once in
\* compactionBlocksVerificationFailed by the verification step and the job
\* goes on: it uploads and marks, fails only if an upload or a deleteBlock
\* fails, and otherwise ends with all outputs uploaded and all sources marked.
C6_CoverageWarningProceeds ==
    CoverageWarning =>
        /\ pc \in {"verify", "upload", "mark", "defer", "returned", "done"}
        /\ compactionBlocksVerificationFailed = IF pc = "verify" THEN 0 ELSE 1
        /\ Returned => WarnedAndProceeded

C6_Witness ==
    /\ CoverageWarning
    /\ pc = "done"
    /\ ret.rerr = "nil"
    /\ compactionBlocksVerificationFailed = 1
    /\ groupCompactionRunsCompleted = 1
    /\ NonEmptyOutIDs \subseteq uploaded
    /\ PlanIDs \subseteq marked

\* C7, over the arguments of one call: the non-empty ULIDs passed, the metas
\* read for them, and what the claim calls a bound violation and coverage.
VNonEmpty == {i \in 1..Len(vArgs.compIDs) : vArgs.compIDs[i] # ZeroULID}
VMeta(i) == vArgs.dir[vArgs.compIDs[i]]
VAllReadable == \A i \in VNonEmpty : VMeta(i).ok
VViolates ==
    \E i \in VNonEmpty :
        /\ VMeta(i).ok
        /\ VMeta(i).MinTime < vArgs.srcMin \/ VMeta(i).MaxTime > vArgs.srcMax
VMinCovered == \E i \in VNonEmpty : VMeta(i).ok /\ VMeta(i).MinTime = vArgs.srcMin
VMaxCovered == \E i \in VNonEmpty : VMeta(i).ok /\ VMeta(i).MaxTime = vArgs.srcMax

\* C7 as stated: with every meta readable, an error is returned iff some
\* non-empty output violates the bounds or neither srcMin nor srcMax is the
\* MinTime, respectively MaxTime, of a non-empty output.
C7_ErrorIffNeitherCovered ==
    (vRes # "unset" /\ VAllReadable) =>
        ((vRes # "nil") <=> (VViolates \/ (~VMinCovered /\ ~VMaxCovered)))

\* C7 amended: an error is returned iff some non-empty output violates the
\* bounds, or srcMin is the MinTime of no non-empty output, or srcMax is the
\* MaxTime of no non-empty output, or the meta of a non-empty output cannot be
\* read; empty ULIDs are ignored.
C7_ErrorIffEitherMissing ==
    vRes # "unset" =>
        ((vRes # "nil") <=>
            (~VAllReadable \/ VViolates \/ ~VMinCovered \/ ~VMaxCovered))

\* srcMin is covered, srcMax is not, nothing violates the bounds: an error.
C7_Witness ==
    /\ vRes = "notContained"
    /\ VAllReadable
    /\ ~VViolates
    /\ VMinCovered
    /\ ~VMaxCovered
    /\ \E i \in 1..Len(vArgs.compIDs) : vArgs.compIDs[i] = ZeroULID

\* C8: a failure of workspace creation, planning, a download, the local
\* bucket, an open, compaction or an upload makes runCompactionJob return
\* (false, nil, error) with no deleteBlock call made and no source marked.
StageFailed == pc \in {"download", "open", "upload"} /\ inflight = {} /\ stageErr
EarlyFailure ==
    /\ pc \in {"mkdir", "plan", "localBucket", "compact"}
    /\ pc' = "defer"
    /\ ret'.rerr # "nil"

C8_AbortLeavesSourcesLive ==
    [][(StageFailed \/ EarlyFailure) =>
           /\ pc' = "defer"
           /\ ret'.shouldRerun = FALSE
           /\ ret'.compIDs = <<>>
           /\ ret'.rerr \in PreMarkErrors
           /\ marked' = {}
           /\ deleteCalls' = {}]_vars

\* One output was uploaded, the other upload failed, no source is marked.
C8_Witness ==
    /\ Returned
    /\ ret = [shouldRerun |-> FALSE, compIDs |-> <<>>, rerr |-> "upload"]
    /\ uploaded # {}
    /\ marked = {}
    /\ toCompact # <<>>

\* C9: when no output of compaction has a non-zero ULID the job uploads
\* nothing, calls deleteBlock for exactly the planned blocks without samples,
\* marks no other block and returns (true, nil, nil) whatever those calls did.
EmptyResult == out # <<>> /\ ~hasNonZeroULIDs(compIDs)

C9_EmptyResultMarksEmptySources ==
    EmptyResult =>
        /\ pc \in {"markEmpty", "defer", "returned", "done"}
        /\ uploaded = {}
        /\ marked \subseteq ZeroSampleIDs
        /\ deleteCalls \subseteq ZeroSampleIDs
        /\ blocksMarkedForDeletion = Cardinality(marked)
        /\ pc # "markEmpty" =>
              /\ deleteCalls = ZeroSampleIDs
              /\ ret = [shouldRerun |-> TRUE, compIDs |-> <<>>, rerr |-> "nil"]

\* Two planned blocks, one without samples whose marking failed.
C9_Witness ==
    /\ Returned
    /\ EmptyResult
    /\ Len(toCompact) = 2
    /\ Cardinality(ZeroSampleIDs) = 1
    /\ deleteCalls = ZeroSampleIDs
    /\ marked = {}
    /\ ret.shouldRerun

\* C10: an empty plan makes runCompactionJob return (false, nil, nil) with no
\* block downloaded, compacted, uploaded or marked.
EmptyPlan ==
    /\ pc \in {"defer", "returned", "done"}
    /\ toCompact = <<>>
    /\ ret.rerr = "nil"

C10_EmptyPlanDoesNothing ==
    EmptyPlan =>
        /\ ret = [shouldRerun |-> FALSE, compIDs |-> <<>>, rerr |-> "nil"]
        /\ disk = {}
        /\ nextIdx = 0
        /\ out = <<>>
        /\ uploaded = {}
        /\ marked = {}
        /\ deleteCalls = {}
        /\ blocksMarkedForDeletion = 0

C10_Witness ==
    /\ EmptyPlan
    /\ pc = "done"
    /\ Len(job.metasByMinTime) = 2
    /\ groupCompactionRunsCompleted = 1
    /\ groupCompactions = 0

\* C11: every return statement of runCompactionJob, with or without an
\* error, is followed by the deferred removal of compactDir/<job key>; the
\* removal either deletes the directory with all it holds or fails and
\* leaves it as it was, and in both cases the values being returned are not
\* changed.
C11_WorkspaceRemovedOnReturn ==
    [][/\ ret' # ret => pc' = "defer"
       /\ (pc' = "returned" /\ pc # "returned") => pc = "defer"
       /\ pc = "defer" =>
             /\ pc' = "returned"
             /\ ret' = ret
             /\ \/ ~subDirExists' /\ disk' = {}
                \/ subDirExists' = subDirExists /\ disk' = disk]_vars

C11_Witness ==
    /\ pc = "returned"
    /\ ret.rerr = "upload"
    /\ ~subDirExists
    /\ disk = {}

\* ------------------------------------------------- properties of Compact

\* A worker holds a job: received, being checked for ownership, run,
\* returned and being counted, or failed with its error not yet queued.
Busy(w) ==
    wst[w] \in {"got", "owned", "notOwned", "ownErr", "running", "returned",
                "flagging", "sending"}

RunningWorkers == {w \in DOMAIN wst : wst[w] = "running"}

\* Compact returned from the end of a pass, not from its preparation.
ReturnedAfterPass == cpc = "returned" /\ compactErr \in {"nil", "jobs"}

\* C12: when a pass ends without a job error, Compact returns nil exactly
\* when the maximum compaction time was reached while dispatching or no run
\* of the pass returned shouldRerun = true (finishedAllJobs is still true);
\* otherwise the loop goes round, and the next pass starts with
\* finishedAllJobs = true.
C12_LoopEndsOrRepeats ==
    /\ (\A w \in DOMAIN wst : wst[w] \notin {"returned", "flagging"}) =>
          finishedAllJobs = ~passRerun
    /\ (ReturnedAfterPass /\ passErrs = {}) =>
          /\ compactErr = "nil"
          /\ maxCompactionTimeReached \/ ~passRerun
    /\ (cpc = "loop" /\ pass > 0) =>
          /\ ~maxCompactionTimeReached
          /\ passRerun
    /\ cpc = "sync" => finishedAllJobs

C12_Witness ==
    /\ pass = 2
    /\ cpc = "returned"
    /\ compactErr = "nil"
    /\ maxCompactionTimeReached
    /\ passRerun

\* A step in which the supervisor hands a job to a worker.
Dispatches ==
    \E w \in DOMAIN wst :
       /\ wst[w] = "waiting"
       /\ w \in DOMAIN wst'
       /\ wst'[w] = "got"

\* C13: once the timer of a positive maxCompactionTime has fired, no job is
\* handed to a worker any more.
C13_NoDispatchAfterExpiry ==
    [][(timer \in {"fired", "read"}) => ~Dispatches]_vars

\* C14: the work context of a pass is cancelled, and Compact returns, only
\* when no worker holds a job; the expiry of maxCompactionTime changes
\* neither.
C14_ExpiryDoesNotCancel ==
    /\ workCtxCancelled => \A w \in DOMAIN wst : ~Busy(w)
    /\ cpc = "returned" => \A w \in DOMAIN wst : ~Busy(w)
    /\ (maxCompactionTimeReached /\ cpc = "wait") => ~workCtxCancelled

C14_Witness ==
    /\ timer = "read"
    /\ maxCompactionTimeReached
    /\ cpc = "wait"
    /\ RunningWorkers # {}

\* The workers whose run failed and whose error is not yet in errChan.
FailedUnsent ==
    {w \in DOMAIN wst :
        \/ wst[w] = "sending"
        \/ wst[w] = "returned" /\ wret[w].rerr # "nil"}

\* C15: a pass in which a run failed ends with Compact returning the job
\* errors, never with another pass, and the errors returned are those of all
\* the runs that failed in the pass; a worker whose run failed queues one
\* error and takes no further job.
C15_JobErrorsAllReturned ==
    /\ (cpc = "loop" \/ ReturnedAfterPass) =>
          /\ jobErrs = passErrs
          /\ passErrs # {} <=> (cpc = "returned" /\ compactErr = "jobs")
    /\ cpc \in {"dispatch", "wait"} =>
          /\ Cardinality(jobErrs) + Len(errChan)
                + Cardinality(FailedUnsent)
             = Cardinality(passErrs)
          /\ jobErrs \cup Range(errChan) \subseteq passErrs
          /\ Cardinality({w \in DOMAIN wst : wst[w] = "exited"})
                >= Cardinality(jobErrs) + Len(errChan)
    /\ cpc = "dispatch" =>
          Cardinality({w \in DOMAIN wst : wst[w] = "exited"})
             = Cardinality(jobErrs) + Len(errChan)

C15_Witness ==
    /\ cpc = "returned"
    /\ compactErr = "jobs"
    /\ Cardinality(passErrs) = 2
    /\ jobErrs = passErrs

\* No job of the current pass has been handed to a worker.
NoneDispatched ==
    /\ jobIdx = 1
    /\ \A w \in DOMAIN wst : wst[w] = "waiting"

\* C16: SyncMetas or GarbageCollect either succeeds and lets the pass go on,
\* or fails and makes Compact return its error before any job of the pass is
\* dispatched; a failed SyncMetas leaves Syncer.blocks as it was.
C16_SyncFailureAborts ==
    [][/\ (cpc = "sync" /\ cpc' \notin {"sync", "gc"}) =>
             /\ cpc' = "returned"
             /\ compactErr' = "sync"
             /\ blocks' = blocks
             /\ NoneDispatched'
       /\ (cpc = "gc" /\ cpc' \notin {"gc", "group"}) =>
             /\ cpc' = "returned"
             /\ compactErr' = "blocks garbage collect"
             /\ NoneDispatched'
       /\ (cpc' = "returned" /\ compactErr' = "sync") =>
             (cpc = "returned" \/ blocks' = blocks)]_vars

C16_Witness ==
    /\ cpc = "returned"
    /\ compactErr = "sync"
    /\ pass = 2
    /\ blocks # {}
    /\ NoneDispatched

\* C17: a worker whose ownership check answered false or failed goes back
\* to waiting for the next job, and that step changes no run counter, queues
\* no error and leaves finishedAllJobs alone.
C17_NotOwnedIsSkipped ==
    [][\A w \in DOMAIN wst :
          (wst[w] \in {"notOwned", "ownErr"} /\ wst'[w] # wst[w]) =>
             /\ wst'[w] = "waiting"
             /\ UNCHANGED <<workerMetrics, errChan, jobErrs, passErrs,
                            finishedAllJobs>>]_vars

C17_Witness ==
    /\ cpc = "dispatch"
    /\ jobIdx = 2
    /\ \A w \in DOMAIN wst : wst[w] = "waiting"
    /\ groupCompactionRunsStarted = 0
    /\ finishedAllJobs

\* jobWaitPeriodElapsed answered "elapsed" or failed for job k.
WaitKept(k) == waitIn.res[k] \in {"elapsed", "error"}

\* C18: filterJobsByWaitPeriod returns, in their order, the jobs whose check
\* answered elapsed or failed; a job it removed is not among the jobs of the
\* pass, is held by no worker and is not among the failed runs.
C18_WaitFilterKeepsElapsedOrError ==
    /\ cpc = "sort" => jobs = SelectSeq(waitIn.jobs, WaitKept)
    /\ waitSkipped \cap Range(jobs) = {}
    /\ \A w \in DOMAIN wst : wjob[w] \notin waitSkipped
    /\ waitSkipped \cap passErrs = {}

C18_Witness ==
    /\ cpc = "sort"
    /\ waitIn.jobs = <<2, 1>>
    /\ waitIn.res[2] = "error"
    /\ waitIn.res[1] = "notElapsed"
    /\ jobs = <<2>>

\* C19: the workers running a job are never more than the configured
\* concurrency.
C19_RunsWithinConcurrency ==
    Cardinality(RunningWorkers) <= concurrency

C19_Witness ==
    /\ concurrency = 2
    /\ Cardinality(RunningWorkers) = 2

\* ------------------------------------------------- properties of the Syncer

\* Caller t is inside a method of the Syncer, past its Lock().
InBody(t) ==
    spc[t] \in {"inSyncMetas", "inGarbageCollect", "marking", "inMetas"}

\* C20: at most one caller is inside SyncMetas, GarbageCollect or Metas, and
\* it is the one holding the mutex; Syncer.blocks changes only in a step of
\* the caller that holds the mutex inside SyncMetas or GarbageCollect.
C20_SyncerMutualExclusion ==
    [][/\ \A t1, t2 \in Callers : (InBody(t1)' /\ InBody(t2)') => t1 = t2
       /\ \A t \in Callers : InBody(t)' => mtx' = t
       /\ blocks' # blocks =>
             /\ mtx \in Callers
             /\ spc[mtx] \in {"inSyncMetas", "marking"}
             /\ \A t \in Callers : t # mtx => spc'[t] = spc[t]]_vars

C20_Witness ==
    \E t \in Callers, u \in Callers :
       /\ t # u
       /\ spc[t] = "inGarbageCollect"
       /\ mtx = t
       /\ spc[u] = "SyncMetas"
       /\ blocks = {2}
       /\ duplicateIDs[t] = <<2>>

\* The steps of the supervisor, in the order a pass takes them.
PassSteps ==
    {<<"loop", "sync">>, <<"sync", "gc">>, <<"gc", "group">>,
     <<"group", "filterOwn">>, <<"filterOwn", "filterWait">>,
     <<"filterWait", "sort">>, <<"sort", "dispatch">>,
     <<"dispatch", "wait">>, <<"wait", "loop">>}
    \cup
    {<<p, "returned">> : p \in {"sync", "gc", "group", "filterOwn", "wait"}}

\* The supervisor is preparing the jobs of a pass.
Preparing == cpc \in {"sync", "gc", "group", "filterOwn", "filterWait", "sort"}

\* C21: a pass goes through SyncMetas, GarbageCollect, grouping, ownership
\* filter, wait-period filter and sort in this order before it dispatches;
\* while it does, no worker holds a job, and Syncer.blocks changes only in
\* SyncMetas and GarbageCollect, with no job in flight.
C21_PassOrder ==
    [][/\ cpc' # cpc => <<cpc, cpc'>> \in PassSteps
       /\ Preparing => \A w \in DOMAIN wst : ~Busy(w)
       /\ blocks' # blocks =>
             /\ cpc \in {"sync", "gc"}
             /\ \A w \in DOMAIN wst : ~Busy(w)]_vars

C21_Witness ==
    /\ pass = 2
    /\ cpc = "dispatch"
    /\ RunningWorkers # {}
    /\ blocks # {}

\* Caller t returns from GarbageCollect in this step.
GCReturns(t) ==
    spc[t] \in {"inGarbageCollect", "marking"} /\ spc'[t] = "idle"

\* The ids of a list.
Ids(s) == {s[i] : i \in DOMAIN s}

\* The duplicates the returning call of caller t has not come to mark keep
\* their place in the map and get no marker from the call.
RemainingUntouched(t) ==
    \A id \in Ids(duplicateIDs[t]) :
       /\ id \in blocks' <=> id \in gcCall.blocks
       /\ id \in marked' <=> id \in gcCall.marked

\* C22: when a GarbageCollect call returns nil, every id DuplicateIDs()
\* reported carries a deletion marker, the map is the map the call found
\* less those ids, and garbageCollections is one more than the call found.
C22_GarbageCollectSuccess ==
    [][\A t \in Callers :
          (GCReturns(t) /\ sret' = "nil") =>
             /\ Ids(gcCall.ids) \subseteq marked'
             /\ blocks' = gcCall.blocks \ Ids(gcCall.ids)
             /\ garbageCollections' = gcCall.collections + 1]_vars

\* A call that found blocks 1 and 2 in the map and block 1 reported as a
\* duplicate has marked it and is about to return nil.
C22_Witness ==
    \E t \in Callers :
       /\ spc[t] = "inGarbageCollect"
       /\ duplicateIDs[t] = <<>>
       /\ gcCall.ids = <<1>>
       /\ gcCall.blocks = {1, 2}
       /\ gcCall.marked = {}
       /\ blocks = {2}
       /\ marked = {1}

\* C23 as stated: every GarbageCollect call updates exactly one of the two
\* outcome counters, garbageCollections when it returns nil and
\* garbageCollectionFailures when it returns an error, and a call that
\* returns an error leaves the failing and the later duplicates alone.
C23_ExactlyOneCounter ==
    [][\A t \in Callers :
          GCReturns(t) =>
             \/ /\ sret' = "nil"
                /\ garbageCollections' = gcCall.collections + 1
                /\ garbageCollectionFailures' = gcCall.failures
             \/ /\ sret' # "nil"
                /\ garbageCollections' = gcCall.collections
                /\ garbageCollectionFailures' = gcCall.failures + 1
                /\ RemainingUntouched(t)]_vars

\* C23, amended: a GarbageCollect call that returns nil adds one to
\* garbageCollections only; one that returns a marking error adds one to
\* garbageCollectionFailures only; one that returns ctx.Err() found ctx
\* done and updates neither counter. A call that returns an error leaves
\* the duplicates it has not marked in the map and without a marker of its
\* own.
C23_OutcomeCounters ==
    [][\A t \in Callers :
          GCReturns(t) =>
             /\ sret' \in {"nil", "mark", "ctx"}
             /\ sret' = "nil" =>
                   /\ garbageCollections' = gcCall.collections + 1
                   /\ garbageCollectionFailures' = gcCall.failures
             /\ sret' = "mark" =>
                   /\ garbageCollections' = gcCall.collections
                   /\ garbageCollectionFailures' = gcCall.failures + 1
                   /\ duplicateIDs[t] # <<>>
                   /\ RemainingUntouched(t)
             /\ sret' = "ctx" =>
                   /\ ctxDone
                   /\ garbageCollections' = gcCall.collections
                   /\ garbageCollectionFailures' = gcCall.failures
                   /\ duplicateIDs[t] # <<>>
                   /\ RemainingUntouched(t)]_vars

\* After one SyncMetas and one GarbageCollect call, the latter has marked
\* block 1, failed to mark block 2 and returned the error: block 2 is in the
\* map without a marker and only the failure is counted.
C23_Witness ==
    /\ calls = 2
    /\ sret = "mark"
    /\ \A t \in Callers : spc[t] = "idle"
    /\ garbageCollectionFailures = 1
    /\ garbageCollections = 0
    /\ blocks = {2}
    /\ marked = {1}

\* C24: no marker write is ever cut short by the cancellation of ctx, and
\* with ctx cancelled or not, a job that has come to mark a source and a
\* GarbageCollect call that has come to mark a duplicate can write the
\* marker and go on.
C24_MarkerWritesOutliveCtx ==
    /\ halfMarked = {}
    /\ (pc = "mark" /\ markIdx <= Len(toCompact)) =>
          ENABLED (MarkSources /\ markIdx' = markIdx + 1)
    /\ \A t \in DOMAIN spc :
          spc[t] = "marking" =>
             ENABLED (GarbageCollectMark(t) /\ spc'[t] = "inGarbageCollect")

\* ctx is cancelled and a job with two sources has uploaded its output and
\* is about to mark its second source, the first carrying its marker.
C24_Witness ==
    /\ ctxDone
    /\ pc = "mark"
    /\ Len(toCompact) = 2
    /\ markIdx = 2
    /\ uploaded # {}
    /\ toCompact[1].ULID \in marked
    /\ toCompact[2].ULID \notin marked

\* C25: a panic raised while a worker executes a job never tears down the
\* supervisor of Compact.
C25_PanicContained == cpc # "crashed"

\* Every run of the pass, if there was one, returned from the empty plan:
\* none failed and none asked for another pass.
NothingDone == passErrs = {} /\ ~passRerun

\* C26: when the first pass of a Compact call comes to its end with nothing
\* done (no job was run, or every run returned from the empty plan), the
\* call returns there, with nil, and groupCompactions is what it was.
C26_NothingToDo ==
    [][(cpc = "wait" /\ cpc' # "wait" /\ pass = 1 /\ NothingDone) =>
          /\ cpc' = "returned"
          /\ compactErr' = "nil"
          /\ groupCompactions' = 0
          /\ groupCompactionRunsFailed' = 0]_vars

\* Compact has returned nil after one pass in which both jobs were run and
\* both returned from the empty plan.
C26_Witness ==
    /\ cpc = "returned"
    /\ pass = 1
    /\ compactErr = "nil"
    /\ Len(jobs) = 2
    /\ waitSkipped = {}
    /\ ~maxCompactionTimeReached
    /\ groupCompactionRunsStarted = 2
    /\ groupCompactionRunsCompleted = 2
    /\ groupCompactions = 0

\* Compact returns in this step.
Returning == cpc # "returned" /\ cpc' = "returned"

\* C28 as stated: when Compact returns nil, compactDir and all under it are
\* gone; when it returns an error they are as they were.
C28_RemovedIffNil ==
    [][Returning =>
          IF compactErr' = "nil"
          THEN ~compactDirExists' /\ dirs' = {}
          ELSE UNCHANGED <<compactDirExists, dirs>>]_vars

\* C28, amended: when Compact returns nil, compactDir and all under it are
\* gone unless the file system refused the removal, which leaves them as
\* they were; when it returns an error they are as they were.
C28_RemovalAttemptedIffNil ==
    [][Returning =>
          IF compactErr' = "nil"
          THEN \/ ~compactDirExists' /\ dirs' = {}
               \/ fsMode = "noRemove" /\ UNCHANGED <<compactDirExists, dirs>>
          ELSE UNCHANGED <<compactDirExists, dirs>>]_vars

\* On a sound file system Compact has run a job, whose workspace is under
\* compactDir, and has returned nil: compactDir is gone.
C28_Witness ==
    /\ cpc = "returned"
    /\ compactErr = "nil"
    /\ fsMode = "sound"
    /\ groupCompactionRunsStarted >= 1
    /\ ~compactDirExists

\* C29: the workspaces of two jobs that run at the same time are disjoint,
\* and no step taken while a job runs and leaves it running (the return of
\* another job, the deletion before the dispatch loop, the return of
\* Compact) removes compactDir or a directory of the job's workspace.
C29_WorkspaceExclusive ==
    [][/\ \A w1, w2 \in DOMAIN wst :
             (w1 # w2 /\ wst[w1] = "running" /\ wst[w2] = "running") =>
                subDir(wjob[w1]) \cap subDir(wjob[w2]) = {}
       /\ \A w \in DOMAIN wst \cap DOMAIN wst' :
             (wst[w] = "running" /\ wst'[w] = "running") =>
                /\ (subDir(wjob[w]) \cap dirs) \subseteq dirs'
                /\ compactDirExists => compactDirExists']_vars

\* Two jobs were started; one has returned and its workspace is removed,
\* the other is running and has its workspace.
C29_Witness ==
    \E w1, w2 \in DOMAIN wst :
       /\ wst[w1] = "running"
       /\ wst[w2] = "waiting"
       /\ groupCompactionRunsStarted = 2
       /\ groupCompactionRunsCompleted = 1
       /\ pass = 1
       /\ dirs = {wjob[w1]}
       /\ compactDirExists

\* The blocks with a no-compact mark in the listing of markers/.
NoCompactMarks ==
    {id \in BlockIDs :
        \E i \in DOMAIN names : names[i] = <<id, "no-compact-mark.json">>}

\* C30: when Filter has returned nil, NoCompactMarkedBlocks() is the set of
\* the blocks that have a no-compact mark under markers/ and were in metas
\* at the call; metas has lost exactly those blocks if
\* removeNoCompactBlocks is set and is as it was if not.
C30_NoCompactMarkedBlocks ==
    filterErr = "nil" =>
       /\ NoCompactMarkedBlocks = NoCompactMarks \cap fMetas0
       /\ fMetas = IF removeNoCompactBlocks
                   THEN fMetas0 \ (NoCompactMarks \cap fMetas0)
                   ELSE fMetas0

\* The second call of a removing filter has returned nil: blocks 1 and 2
\* have a no-compact mark, only block 1 was in metas, was recorded and is
\* no longer in metas.
C30_Witness ==
    /\ filterErr = "nil"
    /\ filterCalls = 2
    /\ removeNoCompactBlocks
    /\ names = <<<<2, "no-compact-mark.json">>, <<1, "no-compact-mark.json">>>>
    /\ fMetas0 = {1}
    /\ fMetas = {}
    /\ NoCompactMarkedBlocks = {1}

\* C27: Compact has returned nil without a time budget and is called again
\* on the bucket as it is, with the same ownership, the same planner and
\* no job held back by the wait period: no step of the second call changes
\* the bucket (no block is merged and uploaded, none is marked for
\* deletion), the call does not start a second pass, and when it returns
\* it returns nil.
C27_SecondCallNoOp ==
    [][call = 2 =>
         /\ bkt' = bkt
         /\ groupCompactions' = groupCompactions
         /\ pass' <= 1
         /\ cpc' = "returned" => compactErr' = "nil"]_vars

\* The second call has returned nil: in the first, block 1 was marked as a
\* duplicate and the job of block 2 merged once and found nothing to do in
\* the second pass, as it did again in the second call.
C27_Witness ==
    /\ call = 2
    /\ cpc = "returned"
    /\ compactErr = "nil"
    /\ bkt[1] = MarkedBlock
    /\ bkt[2] = [kind |-> "plain", work |-> 0]
    /\ groupCompactions = 1
    /\ groupCompactionRunsStarted = 3
    /\ groupCompactionRunsCompleted = 3

\* The jobs ownJob answered true for, in the order they were passed in.
OwnedJobs == SelectSeq(ownIn.jobs, LAMBDA k : ownIn.res[k] = "true")

\* ownJob failed for one of the jobs passed in.
OwnFailed == \E k \in Range(ownIn.jobs) : ownIn.res[k] = "error"

\* ownJob answered false for every job passed in.
NoneOwned == \A k \in Range(ownIn.jobs) : ownIn.res[k] = "false"

\* filterOwnJobs has been called in the pass under way.
OwnFiltered == pass > 0 /\ ownIn.pass = pass

\* C31: filterOwnJobs returns the jobs ownJob answers true for, in the order
\* they came in, unless ownJob fails for a job, and then Compact returns
\* that error; when ownJob answers false for every job, the pass hands no
\* job to a worker and starts no run.
C31_FilterOwnJobs ==
    OwnFiltered =>
       /\ OwnFailed <=> (cpc = "returned" /\ compactErr = "ownJob")
       /\ (~OwnFailed /\ cpc = "filterWait") => jobs = OwnedJobs
       /\ (~OwnFailed) => Range(jobs) \subseteq Range(OwnedJobs)
       /\ NoneOwned =>
             /\ jobs = <<>>
             /\ groupCompactionRunsStarted = ownIn.started
             /\ \A w \in DOMAIN wst :
                   wjob[w] = 0 /\ wst[w] \in {"waiting", "exited"}

\* A pass has ended in which ownJob answered false for both jobs, the
\* second of them listed first.
C31_Witness ==
    /\ OwnFiltered
    /\ ownIn.jobs = <<2, 1>>
    /\ NoneOwned
    /\ cpc = "returned"
    /\ compactErr = "nil"
    /\ groupCompactionRunsStarted = 0

\* The least MinTime and the greatest MaxTime of the plan, in milliseconds.
LeastMinTime ==
    CHOOSE t \in {tPlan[i].MinTime : i \in DOMAIN tPlan} :
       \A i \in DOMAIN tPlan : ~Less64(tPlan[i].MinTime, t)

GreatestMaxTime ==
    CHOOSE t \in {tPlan[i].MaxTime : i \in DOMAIN tPlan} :
       \A i \in DOMAIN tPlan : ~Less64(t, tPlan[i].MaxTime)

\* C32: the srcMin and srcMax passed to the verification are the least
\* MinTime and the greatest MaxTime of the planned blocks, whatever their
\* values: the way through a time in nanoseconds and back changes nothing.
C32_TimeRangeExact ==
    tRes.set => tRes.srcMin = LeastMinTime /\ tRes.srcMax = GreatestMaxTime

\* A step of Put.
PutStep == puts' = puts + 1

\* Put can be called, and the queue holds queueSize inputs at most; a step
\* of Put returns nil and either sends the input on the queue channel or
\* adds one to discardedTotal.
PutEnqueuesOrDiscards ==
    /\ puts < MaxPuts => \A done \in BOOLEAN : ENABLED PutWith(done)
    /\ Len(queue) <= queueSize /\ Len(queue') <= queueSize
    /\ PutStep =>
          /\ lastPut'.err = "nil"
          /\ \/ /\ lastPut'.did = "queued"
                /\ enqueued' = enqueued \cup {puts'}
                /\ discardedTotal' = discardedTotal
             \/ /\ lastPut'.did = "discarded"
                /\ enqueued' = enqueued
                /\ queue' = queue
                /\ discardedTotal' = discardedTotal + 1

\* C33 as stated: Put never blocks and returns nil; a call either enqueues
\* its input or adds one to discardedTotal; a call made when the queue
\* holds queueSize inputs discards, and the queue never holds more than
\* queueSize inputs.
C33_PutFullDiscards ==
    [][/\ PutEnqueuesOrDiscards
       /\ (PutStep /\ Len(queue) = queueSize)
             => lastPut'.did = "discarded"]_vars

\* C33, amended: the same, but a call made when the queue holds queueSize
\* inputs discards unless the channel has no buffer and a worker is waiting
\* to receive, which is then handed the input.
C33_PutNeverBlocks ==
    [][/\ PutEnqueuesOrDiscards
       /\ (PutStep /\ Len(queue) = queueSize
             /\ ~(queueSize = 0 /\ Receivers # {}))
             => lastPut'.did = "discarded"]_vars

\* The queue of capacity two is full, no worker having received yet, and
\* the third input was discarded.
C33_Witness ==
    /\ queueSize = 2
    /\ Len(queue) = 2
    /\ puts = 3
    /\ lastPut = [input |-> 3, did |-> "discarded", err |-> "nil"]
    /\ discardedTotal = 1
    /\ stop = "open"

\* The queue workers that have not returned.
LiveWorkers == {w \in DOMAIN qw : qw[w] \in {"start", "select", "got"}}

\* C34: a panic in Ingest is recovered into an error of safePut for the
\* input at hand; the worker goes round its loop, so that until Stop is
\* called all queueWorkers workers are live.
C34_PanicRecovered ==
    [][/\ stop = "open" => Cardinality(LiveWorkers) = queueWorkers
       /\ \A w \in DOMAIN qw :
             qw[w] = "got" =>
                /\ qw'[w] \in {"got", "start"}
                /\ qw'[w] = "start" =>
                      /\ ingested' = ingested \cup {qin[w]}
                      /\ lastIngest'.input = qin[w]
                      /\ lastIngest'.err
                            \in {"nil", "error", "panic recovered"}]_vars

\* The one worker recovered a panic of Ingest on input 1 and has received
\* input 2 since.
C34_Witness ==
    /\ queueWorkers = 1
    /\ stop = "open"
    /\ lastIngest = [input |-> 1, err |-> "panic recovered"]
    /\ ingested = {1}
    /\ qw[1] = "got"
    /\ qin[1] = 2

\* C35 as stated: every input Put has enqueued is in the end passed to
\* Ingest, Stop or no Stop.
C35_EnqueuedIngested ==
    \A x \in 1..MaxPuts : (x \in enqueued) ~> (x \in ingested)

\* Stop was called before a worker received input x: stop is closed and x
\* is still in the buffer of the queue channel.
StoppedBeforeReceived(x) == stop = "closed" /\ x \in Range(queue)

\* C35, amended: every input Put has enqueued is in the end passed to
\* Ingest, unless Stop is called before a worker has received it; an input
\* a worker holds when Stop is called is still passed to Ingest.
C35_EnqueuedIngestedUnlessStop ==
    \A x \in 1..MaxPuts :
       (x \in enqueued) ~> (x \in ingested \/ StoppedBeforeReceived(x))

\* The channel has no buffer; input 1 was handed to the parked worker, Stop
\* has been called since, and the worker has yet to pass the input to
\* Ingest.
C35_Witness ==
    /\ queueWorkers = 1
    /\ queueSize = 0
    /\ enqueued = {1}
    /\ ingested = {}
    /\ qw[1] = "got"
    /\ qin[1] = 1
    /\ stop = "closed"
    /\ stopPc = "waiting"

\* ------------------------------------------------------------------- C36
\* C36: whenever Compact has returned, with nil or with any error, every
\* worker goroutine it started has terminated; none is left waiting on the
\* job channel.
C36_WorkersTerminated ==
    cpc = "returned" => \A w \in DOMAIN wst : wst[w] = "exited"

\* ------------------------------------------------------------------- C37
\* The pass is over: Compact has returned or is back at the head of its loop.
PassOver == cpc \in {"returned", "loop"}

\* C37: a pass that reaches dispatch never deadlocks. Given that every
\* runCompactionJob call returns, a worker that has an error to send gets
\* it into errChan and exits, the dispatcher leaves the dispatch loop and the
\* wait for the workers completes: the pass ends, which it does only after
\* close(jobChan) and wg.Wait() have returned.
C37_DispatchNeverDeadlocks == (cpc = "dispatch") ~> PassOver

\* Every worker of the pass has failed and exited while jobs were still to
\* be dispatched, and the pass has ended with their errors.
C37_Witness ==
    /\ concurrency = 1
    /\ cpc = "returned"
    /\ compactErr = "jobs"
    /\ Cardinality(jobErrs) = 1
    /\ jobIdx <= Len(jobs)
    /\ \A w \in DOMAIN wst : wst[w] = "exited"

\* ------------------------------------------------------------------- C38
\* A worker calls runCompactionJob in this step.
RunStarts(w) == wst[w] = "owned" /\ wst'[w] = "running"

\* The runCompactionJob call of a worker returns in this step.
RunReturns(w) == wst[w] = "running" /\ wst'[w] = "returned"

\* A worker counts in this step the run that has returned to it.
RunCounted(w) == wst[w] = "returned" /\ wst'[w] # "returned"

\* The workers with a job in flight: the run was counted as started and
\* not yet as completed or failed.
InFlight == {w \in DOMAIN wst : wst[w] \in {"running", "returned"}}

\* The run counters agree: no run has ended that was not started, and with
\* no job in flight every started run is completed or failed.
RunsBalanced ==
    /\ groupCompactionRunsStarted >=
          groupCompactionRunsCompleted + groupCompactionRunsFailed
    /\ InFlight = {} =>
          groupCompactionRunsStarted =
             groupCompactionRunsCompleted + groupCompactionRunsFailed

\* C38: at all times groupCompactionRunsStarted is at least
\* groupCompactionRunsCompleted + groupCompactionRunsFailed, with equality
\* when no job is in flight; a job that is run adds one to started when the
\* run begins and one to exactly one of completed and failed once it has
\* returned, and nothing else moves these counters; groupCompactions grows
\* only by one, for a run that returned a nil error and a non-zero output
\* ULID.
C38_RunCounters ==
    [][/\ RunsBalanced
       /\ RunsBalanced'
       /\ \A w \in DOMAIN wst :
             RunStarts(w) =>
                /\ groupCompactionRunsStarted' =
                      groupCompactionRunsStarted + 1
                /\ UNCHANGED <<groupCompactionRunsCompleted,
                               groupCompactionRunsFailed, groupCompactions>>
       /\ \A w \in DOMAIN wst :
             RunReturns(w) =>
                /\ lastRun'.job = wjob[w]
                /\ wret'[w] = [shouldRerun |-> lastRun'.shouldRerun,
                               compIDs |-> lastRun'.compIDs,
                               rerr |-> lastRun'.rerr]
                /\ UNCHANGED <<groupCompactionRunsStarted,
                               groupCompactionRunsCompleted,
                               groupCompactionRunsFailed, groupCompactions>>
       /\ \A w \in DOMAIN wst :
             RunCounted(w) =>
                /\ UNCHANGED groupCompactionRunsStarted
                /\ IF wret[w].rerr = "nil"
                   THEN /\ groupCompactionRunsCompleted' =
                              groupCompactionRunsCompleted + 1
                        /\ UNCHANGED groupCompactionRunsFailed
                   ELSE /\ groupCompactionRunsFailed' =
                              groupCompactionRunsFailed + 1
                        /\ UNCHANGED <<groupCompactionRunsCompleted,
                                       groupCompactions>>
       /\ groupCompactionRunsStarted' # groupCompactionRunsStarted =>
             \E w \in DOMAIN wst : RunStarts(w)
       /\ (\/ groupCompactionRunsCompleted' # groupCompactionRunsCompleted
           \/ groupCompactionRunsFailed' # groupCompactionRunsFailed) =>
             \E w \in DOMAIN wst : RunCounted(w)
       /\ groupCompactions' # groupCompactions =>
             /\ groupCompactions' = groupCompactions + 1
             /\ \E w \in DOMAIN wst :
                   /\ RunCounted(w)
                   /\ wret[w].rerr = "nil"
                   /\ \E i \in DOMAIN wret[w].compIDs :
                         wret[w].compIDs[i] # ZeroULID]_vars

\* The pass is over, two jobs were run at the same time, one returned an
\* error and the other, last, a compacted block: three counters stand at
\* their sum and groupCompactions at one.
C38_Witness ==
    /\ cpc = "returned"
    /\ concurrency = 2
    /\ groupCompactionRunsStarted = 2
    /\ groupCompactionRunsCompleted = 1
    /\ groupCompactionRunsFailed = 1
    /\ groupCompactions = 1
    /\ lastRun.rerr = "nil"
    /\ lastRun.compIDs # <<>>

\* ------------------------------------------------------------------- C39
\* The jobs of the pass that the dispatcher has handed to a worker.
Dispatched == {jobs[i] : i \in 1..(jobIdx - 1)}

\* Worker w receives a job from jobChan in this step.
Receives(w) == wjob[w] = 0 /\ wjob'[w] # 0

\* No job is with two workers, none is run twice or while an earlier run of
\* it is recorded, and only dispatched jobs are with a worker or were run.
RunAtMostOnce ==
    /\ \A w \in DOMAIN wjob :
          wjob[w] # 0 =>
             /\ wjob[w] \in Dispatched
             /\ Runs(wjob[w]) = 0
                \/ wst[w] \in {"returned", "flagging", "sending"}
             /\ \A v \in DOMAIN wjob : v # w => wjob[v] # wjob[w]
    /\ \A k \in DOMAIN runCount : runCount[k] = 1 /\ k \in Dispatched

\* C39: within one pass each job of the sorted list is received by at most
\* one worker and run at most once, the jobs are handed out in the order of
\* the list, one at a time and only by the dispatch loop, and a job not
\* handed out when dispatching stopped is not run in the pass.
C39_DispatchOnceInOrder ==
    [][/\ RunAtMostOnce
       /\ RunAtMostOnce'
       /\ \A w \in DOMAIN wjob :
             Receives(w) =>
                /\ cpc = "dispatch"
                /\ jobIdx <= Len(jobs)
                /\ wjob'[w] = jobs[jobIdx]
                /\ jobIdx' = jobIdx + 1
                /\ \A k \in Dispatched : k < wjob'[w]
                /\ \A v \in DOMAIN wjob : v # w => wjob'[v] = wjob[v]
       /\ jobIdx' # jobIdx => \E w \in DOMAIN wjob : Receives(w)
       /\ \A w \in DOMAIN wjob :
             (wjob[w] # 0 /\ wjob'[w] # wjob[w]) => wjob'[w] = 0
       /\ cpc # "dispatch" => Dispatched' = Dispatched]_vars

\* The time budget ran out after the first of two jobs was handed out: the
\* first was run once, the second not at all, and Compact has returned.
C39_Witness ==
    /\ cpc = "returned"
    /\ compactErr = "nil"
    /\ maxCompactionTimeReached
    /\ jobs = <<1, 2>>
    /\ jobIdx = 2
    /\ Runs(1) = 1
    /\ Runs(2) = 0

\* ------------------------------------------------------------------- C40
\* Compact is back at the head of its loop after a pass that asked for
\* another one.
GoesRound == cpc = "loop" /\ pass > 0

\* C40: Compact called with maxCompactionTime = 0 on a bucket that nobody
\* else writes to, with a deterministic planner and compactor, eventually
\* returns: the loop does not repeat forever on jobs that keep returning
\* shouldRerun = true. In a finite run: no pass that asks for another one
\* leaves the bucket as it found it, since the next pass would then find
\* what this one found, do what this one did, and so would every later one.
C40_NoPassRepeats == GoesRound => bkt # passBkt
====
